---- MODULE Spec2Model ----
(***************************************************************************)
(* Battle phase state machine and action queue of Tuxemon's CombatState    *)
(* (src/tuxemon/states/combat/combat.py) together with the AI decision     *)
(* maker (src/tuxemon/ai.py).                                              *)
(*                                                                         *)
(* One battle between players[0] (the human party) and players[1] (the AI  *)
(* party).  A step of the model is one of: the start-up task that sets the *)
(* phase to "ready", one call of CombatState.update (determine_phase,      *)
(* transition_phase and update_phase together), one scheduled task firing, *)
(* or one input of the human player through a menu.                        *)
(***************************************************************************)
EXTENDS Integers, Sequences, FiniteSets, TLC

\* ------------------------------------------------------------------ bounds
\* Rounds played before the model stops starting new ones.
MaxTurn == 2
\* Largest number of potion items the AI trainer holds.
MaxPotions == 2
\* Longest action queue the queue harness (QSpec) starts from.
MaxQueue == 3
\* monster.max_moves: the number of moves the decision maker chooses among
MaxMoves == 2

Range(s) == {s[i] : i \in DOMAIN s}

\* ---------------------------------------------------------------- entities
Human == "human"
Ai == "ai"
Players == {Human, Ai}
NoUser == "none"

\* the monsters a party can hold, in party order
Party(p) == IF p = Human THEN <<"h1", "h2">> ELSE <<"a1", "a2">>

Monsters == {"h1", "h2", "a1", "a2"}

owner(m) == IF m \in Range(Party(Human)) THEN Human ELSE Ai

\* NPC.isplayer
isplayer(p) == p = Human

\* monster.hp (maximum hit points) and monster.level
hp(m) == 10
level(m) == IF m \in {"h1", "a1"} THEN 5 ELSE 3

\* outcomes of formula.simple_damage_calculate for a technique that hits
Damages == {8, 10}

\* mutant: the damage of the technique can stay below the health of a target
Lethal_or_less == {8, 10}

\* its outcomes for a technique whose damage is never below the health of
\* a target
Lethal == {10, 12}

\* values of random.random() and of tech.accuracy, in hundredths
Draws == {50, 75}
accuracy(t) == IF t = "slam" THEN 100 ELSE 50

Phases == {"None", "begin", "ready", "housekeeping phase", "decision phase",
           "pre action phase", "action phase", "post action phase",
           "resolve match", "ran away", "draw match", "has winner",
           "end combat"}

\* payloads and their classes (isinstance tests of perform_action)
Techniques == {"tackle", "slam", "skip", "menu_run"}

\* the techniques whose effect is local_damage
Damaging == {"tackle", "slam"}
\* the potion items of players[1].items, each its own object
potion_items == <<"potion1", "potion2", "potion3", "potion4">>
Items == Range(potion_items)
Conditions == {"poison", "faint"}

IsTechnique(t) == t \in Techniques
IsItem(t) == t \in Items
IsCondition(t) == t \in Conditions

\* EnqueuedAction(user, technique, target)
EnqueuedAction(u, t, g) == [user |-> u, technique |-> t, target |-> g]

\* ------------------------------------------------------------ action queue
\* technique.sort / item.sort / condition.sort of the payloads of the model
sort(t) == CASE t \in Damaging -> "damage"
             [] t = "poison" -> "damage"
             [] t \in Range(potion_items) -> "potion"
             [] OTHER -> "meta"

\* sort_order of sort_action_queue
sort_order == <<"meta", "item", "utility", "potion", "food", "heal", "damage">>

\* sort_order.index(sort)
index(s) == CHOOSE i \in DOMAIN sort_order : sort_order[i] = s

\* rank_action: the sort key of an action; speed is the value
\* action.user.speed_test(action) returns for it
rank_action(action, speed) ==
    LET primary_order == index(sort(action.technique)) - 1
    IN  IF sort(action.technique) = "meta" THEN <<primary_order, 0>>
        ELSE IF sort(action.technique) = "potion" THEN <<primary_order, 0>>
        ELSE <<primary_order, speed>>

\* comparison of two (primary, secondary) keys, as Python compares tuples
KeyLess(r1, r2) == r1[1] < r2[1] \/ (r1[1] = r2[1] /\ r1[2] < r2[2])

\* mutant: the insertion of a sort without reverse=True
RECURSIVE InsertAscending(_, _, _)
InsertAscending(s, i, keys) ==
    IF s = <<>> THEN <<i>>
    ELSE IF KeyLess(keys[i], keys[Head(s)]) THEN <<i>> \o s
    ELSE <<Head(s)>> \o InsertAscending(Tail(s), i, keys)

\* Insert index i into the index sequence s, sorted by descending key: after
\* every entry whose key is not smaller (list.sort is stable, also with
\* reverse=True).
RECURSIVE InsertDescending(_, _, _)
InsertDescending(s, i, keys) ==
    IF s = <<>> THEN <<i>>
    ELSE IF KeyLess(keys[Head(s)], keys[i]) THEN <<i>> \o s
    ELSE <<Head(s)>> \o InsertDescending(Tail(s), i, keys)

RECURSIVE SortFrom(_, _, _)
SortFrom(s, i, keys) ==
    IF i > Len(keys) THEN s
    ELSE SortFrom(InsertDescending(s, i, keys), i + 1, keys)

RECURSIVE AscendingFrom(_, _, _)
AscendingFrom(s, i, keys) ==
    IF i > Len(keys) THEN s
    ELSE AscendingFrom(InsertAscending(s, i, keys), i + 1, keys)

\* mutant: the order of an ascending sort followed by a reversal, which
\* turns the entries of equal key around
SortThenReverse(keys) ==
    LET asc == AscendingFrom(<<>>, 1, keys)
    IN  [k \in 1..Len(asc) |-> asc[Len(asc) + 1 - k]]

\* The order list.sort(key=rank_action, reverse=True) gives a queue whose
\* entries have the keys `keys`: position k of the result holds the entry that
\* was at position SortOrder(keys)[k].
SortOrder(keys) == SortFrom(<<>>, 1, keys)

\* the entries of q at the positions idx, in that order
Pick(q, idx) == [k \in 1..Len(idx) |-> q[idx[k]]]

\* sort_action_queue, given the key rank_action computes for each entry
sort_action_queue(q, keys) == Pick(q, SortOrder(keys))

\* mutant: the actions of the withdrawn monster itself keep their target
rewrite_sparing_own_user(q, original, new) ==
    [i \in DOMAIN q |->
        IF q[i].target = original /\ q[i].user # original
        THEN EnqueuedAction(q[i].user, q[i].technique, new)
        ELSE q[i]]

\* rewrite_action_queue_target
rewrite_action_queue_target(q, original, new) ==
    [i \in DOMAIN q |->
        IF q[i].target = original
        THEN EnqueuedAction(q[i].user, q[i].technique, new)
        ELSE q[i]]

\* list.remove(a) on the entries at positions idx: drops the first entry
\* equal to a
RECURSIVE RemoveFirst(_, _, _)
RemoveFirst(idx, q, a) ==
    IF idx = <<>> THEN <<>>
    ELSE IF q[Head(idx)] = a THEN Tail(idx)
    ELSE <<Head(idx)>> \o RemoveFirst(Tail(idx), q, a)

RECURSIVE RemoveEach(_, _, _)
RemoveEach(idx, q, to_remove) ==
    IF to_remove = {} THEN idx
    ELSE LET a == CHOOSE x \in to_remove : TRUE
         IN  RemoveEach(RemoveFirst(idx, q, a), q, to_remove \ {a})

\* The positions of q that remove_monster_actions_from_queue(monster) keeps:
\* to_remove is a set, so equal entries are collected once, and each member
\* is removed with one list.remove.
KeptByRemove(q, monster) ==
    LET to_remove == {q[i] : i \in {j \in DOMAIN q :
                          q[j].user = monster \/ q[j].target = monster}}
    IN  RemoveEach([i \in DOMAIN q |-> i], q, to_remove)

\* mutant: the entries kept are put back in reverse order
remove_reversing(q, monster) ==
    LET kept == Pick(q, KeptByRemove(q, monster))
    IN  [k \in 1..Len(kept) |-> kept[Len(kept) + 1 - k]]

\* mutant: the purge empties the queue
remove_every_action(q, monster) == <<>>

\* remove_monster_actions_from_queue
remove_monster_actions_from_queue(q, monster) == Pick(q, KeptByRemove(q, monster))

\* ------------------------------------------------------------------- state
VARIABLES
    phase,            \* self.phase ("None" for None)
    edge,             \* history: <<old, new>> of the last self.phase = new_phase of update
    entered,          \* history: argument of the last transition_phase call, the
                      \* number of calls since self.phase last took a new value, and
                      \* whether a WaitForInputState was dismissed since
    players,          \* self.players
    max_position,     \* player.max_position
    monsters_in_play, \* self.monsters_in_play
    current_hp,       \* monster.current_hp
    status,           \* monster.status: the slugs of its conditions
    _action_queue,    \* self._action_queue
    _decision_queue,  \* self._decision_queue
    _damage_map,      \* self._damage_map
    _turn,            \* self._turn
    _run,             \* self._run
    tasks,            \* the scheduled tasks that have not fired yet, in firing order
    gate,             \* a WaitForInputState is on top of the state stack
    menus,            \* monsters whose action menu is open
    asks,             \* open replacement dialogs of ask_player_for_monster
    is_trainer_battle,\* self.is_trainer_battle
    potions,          \* number of potion items in players[1].items
    last_exec,        \* history: the action handle_action_queue popped last
    trace,            \* history (queue harness): the entries popped, in order
    q_ids,            \* history (queue harness): enqueue number of each queue entry
    q_keys,           \* history (queue harness): sort key of each queue entry
    q_op,             \* history (queue harness): the last queue operation
    faint_log,        \* history: faint_monster calls per monster, and the monsters
                      \* fainted and the experience given by the last check_party_hp
    ai,               \* decision-maker harness: mov.next_use of each move, the pairs
                      \* mov.validate accepts, and what track_next_use returned
    game_variables,   \* players[0].game_variables: random_tech_hit (in hundredths)
                      \* and battle_last_result
    battles,          \* players[0].battles: the outcome of each record
    nr_turn,          \* condition.nr_turn of the condition each monster carries
    _log_action,      \* self._log_action: the pairs (round, action)
    evolution,        \* history: the calls of evolve, the path conditions that
                      \* held and the question_evolution calls made
    roster,           \* player.monsters: the roster of each party, in party order
    log_kept,         \* whether the specification keeps self._log_action
    cond              \* condition harness: the CurrentHitPointsCondition, its
                      \* target and what test returned

vars == <<phase, edge, entered, players, max_position, monsters_in_play, current_hp,
          status, _action_queue, _decision_queue, _damage_map, _turn, _run,
          tasks, gate, menus, asks, is_trainer_battle, potions, last_exec,
          trace, q_ids, q_keys, q_op, faint_log, ai, game_variables, battles,
          nr_turn,
          _log_action,
          evolution, roster, log_kept, cond>>

\* what a battle leaves as it is: the variables of the harnesses, the
\* rosters and the choice to keep the log
harness_vars == <<trace, q_ids, q_keys, q_op, ai, roster, log_kept, cond>>

\* player.monsters
monsters(p) == roster[p]

\* has_status(monster, slug)
has_status(m, slug) == \E i \in DOMAIN status[m] : status[m][i] = slug

\* fainted(monster)
fainted(m) == current_hp[m] <= 0

\* alive_party(player)
alive_party(p) == SelectSeq(monsters(p), LAMBDA m : ~fainted(m))

\* defeated(player)
defeated(p) == \A m \in Range(monsters(p)) : fainted(m)

\* active_players
active_players == SelectSeq(players, LAMBDA p : ~defeated(p))

\* human_players
human_players == SelectSeq(players, isplayer)

\* ai_players
ai_players == Range(active_players) \ Range(human_players)

\* remaining_players
remaining_players == SelectSeq(players, LAMBDA p : ~defeated(p))

\* monsters in play of each party, in the order of the dictionary
in_play(mip) == mip[Human] \o mip[Ai]

\* active_monsters
active_monsters == in_play(monsters_in_play)

\* get_awake_monsters(player, monsters_in_play[player], turn)
get_awake_monsters(p, mip) ==
    SelectSeq(monsters(p), LAMBDA m : ~fainted(m) /\ m \notin Range(mip[p]))

NoOp == [name |-> "none", original |-> "none", new |-> "none",
         before |-> <<>>, hp_before |-> 0]

NoFaint == [count |-> [m \in Monsters |-> 0], last |-> {},
            given |-> [x \in {} |-> [w \in {} |-> 0]]]

NoResult == <<"none", "none">>

\* the moves of the monster the decision-maker harness decides for
harness_moves == <<"bite", "ram", "tackle">>

NoAi == [next_use |-> [x \in Range(harness_moves) |-> 0], valid |-> {},
         result |-> NoResult]

NoAction == [user |-> NoUser, technique |-> "none", target |-> "none",
             stale |-> FALSE, should_tackle |-> FALSE, hit |-> FALSE,
             damage |-> 0, success |-> FALSE]

\* the condition harness before a condition is tested
NoCondition == [comparison |-> "None", is_float |-> FALSE, value |-> 0,
                target |-> "none", tested |-> FALSE, result |-> FALSE]

\* game_variables before the battle has written to it
NoVariables == [random_tech_hit |-> -1, battle_last_result |-> "none"]

\* ---------------------------------------------------------- decision maker
Max(S) == CHOOSE x \in S : \A y \in S : y <= x
Min(S) == CHOOSE x \in S : \A y \in S : x <= y

\* round(hp * 0.15): Python rounds halves to the even neighbour
round15(h) ==
    LET q == (h * 15) \div 100
        r == (h * 15) % 100
    IN  IF r > 50 THEN q + 1
        ELSE IF r < 50 THEN q
        ELSE IF q % 2 = 0 THEN q ELSE q + 1

\* AI.check_strongest: self.user is players[1]
check_strongest(m) ==
    level(m) = Max({level(x) : x \in Range(monsters(players[2]))})

\* AI.need_potion
need_potion(m) == current_hp[m] > 1 /\ current_hp[m] <= round15(hp(m))

\* monster.moves[-monster.max_moves:]
last_moves(mvs, max_moves) ==
    SubSeq(mvs, Max({1, Len(mvs) - max_moves + 1}), Len(mvs))

\* mutant: the recharge of a move is not looked at
candidates_ignoring_recharge(mvs, max_moves, next_use, opponents, valid) ==
    {<<mov, opponent>> : mov \in Range(last_moves(mvs, max_moves)),
                         opponent \in Range(opponents)}
    \cap valid

\* AI.track_next_use, actions: the (mov, opponent) pairs with mov one of
\* the last max_moves moves, mov.next_use <= 0 and mov.validate(opponent)
candidates(mvs, max_moves, next_use, opponents, valid) ==
    {<<mov, opponent>> : mov \in {x \in Range(last_moves(mvs, max_moves)) :
                                     next_use[x] <= 0},
                         opponent \in Range(opponents)}
    \cap valid

\* the outcome of random.choice on an empty list
IndexError == <<"IndexError", "none">>

\* mutant: the fallback aims at any monster of the opposing party
skip_on_any_opponent(opponents) ==
    {<<"skip", o>> : o \in Range(monsters(Human))}

\* AI.track_next_use, no action: skip on random.choice(self.opponents)
skip_on_opponent(opponents) ==
    IF opponents = <<>> THEN {IndexError}
    ELSE {<<"skip", o>> : o \in Range(opponents)}

\* AI.track_next_use: the (technique, target) pairs it can return
track_next_use(mvs, max_moves, next_use, opponents, valid) ==
    IF candidates(mvs, max_moves, next_use, opponents, valid) = {}
    THEN skip_on_opponent(opponents)
    ELSE candidates(mvs, max_moves, next_use, opponents, valid)

\* monster.moves of the monsters of the battle
moves(m) == <<"tackle">>

\* self.opponents of AI.__init__: the monsters in play of players[0]
opponents == monsters_in_play[players[1]]

\* what track_next_use can return for m, over the recharge states of its
\* moves and the outcomes of their validation
next_use_choices(m) ==
    UNION {track_next_use(moves(m), MaxMoves, next_use, opponents, valid) :
              next_use \in [Range(moves(m)) -> {0, 1}],
              valid \in SUBSET (Range(moves(m)) \X Range(opponents))}

\* AI.action_tech
action_tech(m, technique, target) == <<EnqueuedAction(m, technique, target)>>

\* AI.action_item
action_item(m, itm) == <<EnqueuedAction(players[2], itm, m)>>

\* the action_item calls of make_decision_trainer: one for each potion held
RECURSIVE item_actions(_, _)
item_actions(m, n) ==
    IF n = 0 THEN <<>>
    ELSE item_actions(m, n - 1) \o action_item(m, potion_items[n])

\* AI.make_decision_trainer: what it enqueues when track_next_use returns choice
make_decision_trainer(m, choice) ==
    (IF check_strongest(m) /\ potions > 0 /\ need_potion(m)
     THEN item_actions(m, potions) ELSE <<>>)
    \o action_tech(m, choice[1], choice[2])

\* AI.make_decision_wild
make_decision_wild(m, choice) == action_tech(m, choice[1], choice[2])

\* AI.__init__: the actions one invocation of the decision maker enqueues
AI(m, choice) ==
    IF is_trainer_battle THEN make_decision_trainer(m, choice)
    ELSE make_decision_wild(m, choice)

RECURSIVE AIAll(_, _)
AIAll(ms, choice) ==
    IF ms = <<>> THEN <<>>
    ELSE AI(Head(ms), choice[Head(ms)]) \o AIAll(Tail(ms), choice)

\* ------------------------------------------------------------ phase machine
\* max_position of player p once the loops of determine_phase and
\* fill_battlefield_positions have visited it
reduced(p) == IF Len(alive_party(p)) = 1 THEN 1 ELSE max_position[p]

\* positions_available of player p
positions_available(p) == reduced(p) - Len(monsters_in_play[p])

\* determine_phase, housekeeping: the positions in active_players of the
\* players with positions_available non-zero
blocked == {i \in DOMAIN active_players : positions_available(active_players[i]) # 0}

\* determine_phase, housekeeping: max_position after the loop, which returns
\* at the first player with positions available
max_position_determined ==
    LET stop == IF blocked = {} THEN Len(active_players) ELSE Min(blocked)
    IN  [p \in Players |->
            IF \E i \in 1..stop : active_players[i] = p
            THEN reduced(p) ELSE max_position[p]]

\* determine_phase, "housekeeping phase"
next_housekeeping == IF blocked = {} THEN "decision phase" ELSE "None"

\* determine_phase, "decision phase"
next_decision ==
    IF Len(remaining_players) = 1 THEN "ran away"
    ELSE IF Len(_action_queue) = Len(active_monsters) THEN "pre action phase"
    ELSE "None"

\* mutant: the action phase goes straight to resolve match
next_action_skipping_post ==
    IF _action_queue = <<>> THEN "resolve match" ELSE "None"

\* determine_phase, "action phase"
next_action == IF _action_queue = <<>> THEN "post action phase" ELSE "None"

\* determine_phase, "post action phase"
next_post_action == IF _action_queue = <<>> THEN "resolve match" ELSE "None"

\* mutant: the retreat flag is not consulted
next_resolve_match_ignoring_run ==
    LET remaining == Len(remaining_players)
    IN  IF remaining = 0 THEN "draw match"
        ELSE IF remaining = 1 THEN "has winner"
        ELSE "housekeeping phase"

\* determine_phase, "resolve match"
next_resolve_match ==
    LET remaining == Len(remaining_players)
    IN  IF remaining = 0 THEN "draw match"
        ELSE IF remaining = 1
             THEN (IF _run THEN "ran away" ELSE "has winner")
             ELSE "housekeeping phase"

\* mutant: without a phase the machine enters "end combat" again
determine_phase_ending_again(ph) ==
    CASE ph = "begin" -> "None"
      [] ph = "ready" -> "housekeeping phase"
      [] ph = "housekeeping phase" -> next_housekeeping
      [] ph = "decision phase" -> next_decision
      [] ph = "pre action phase" -> "action phase"
      [] ph = "action phase" -> next_action
      [] ph = "post action phase" -> next_post_action
      [] ph = "resolve match" -> next_resolve_match
      [] ph \in {"ran away", "draw match", "has winner"} -> "end combat"
      [] ph = "end combat" -> "None"
      [] ph = "None" -> IF entered.phase = "end combat" THEN "end combat"
                        ELSE "None"

\* determine_phase: the next phase, "None" for None
determine_phase(ph) ==
    CASE ph \in {"None", "begin"} -> "None"
      [] ph = "ready" -> "housekeeping phase"
      [] ph = "housekeeping phase" -> next_housekeeping
      [] ph = "decision phase" -> next_decision
      [] ph = "pre action phase" -> "action phase"
      [] ph = "action phase" -> next_action
      [] ph = "post action phase" -> next_post_action
      [] ph = "resolve match" -> next_resolve_match
      [] ph = "ran away" -> "end combat"
      [] ph = "draw match" -> "end combat"
      [] ph = "has winner" -> "end combat"
      [] ph = "end combat" -> "None"

\* player.max_position of every party after a call determine_phase(ph): only
\* the "housekeeping phase" branch assigns to it
determine_phase_max_position(ph) ==
    IF ph = "housekeeping phase" THEN max_position_determined ELSE max_position

\* fill_battlefield_positions(ask): max_position, monsters_in_play and the
\* number of replacement dialogs opened
fill_max_position ==
    [p \in Players |-> IF p \in Range(active_players) THEN reduced(p)
                       ELSE max_position[p]]

\* mutant: with ask set no party is filled without a dialog, the AI party
\* included
fill_monsters_in_play_never_with_ask(ask) ==
    [p \in Players |->
        IF /\ p \in Range(active_players)
           /\ positions_available(p) > 0
           /\ ~ask
        THEN LET available == get_awake_monsters(p, monsters_in_play)
                 n == Min({positions_available(p), Len(available)})
             IN  monsters_in_play[p] \o SubSeq(available, 1, n)
        ELSE monsters_in_play[p]]

fill_monsters_in_play(ask) ==
    [p \in Players |->
        IF /\ p \in Range(active_players)
           /\ positions_available(p) > 0
           /\ ~(isplayer(p) /\ ask)
        THEN LET available == get_awake_monsters(p, monsters_in_play)
                 n == Min({positions_available(p), Len(available)})
             IN  monsters_in_play[p] \o SubSeq(available, 1, n)
        ELSE monsters_in_play[p]]

fill_asks(ask) ==
    IF /\ Human \in Range(active_players)
       /\ positions_available(Human) > 0
       /\ ask
    THEN asks + positions_available(Human) ELSE asks

\* -------------------------------------------------------- action execution
\* technique.use / item.use / condition.use as perform_action dispatches
\* them: current_hp after action is performed with damage outcome d
hp_after(action, d) ==
    IF IsTechnique(action.technique) /\ action.user \in Monsters
    THEN IF action.technique \in Damaging
         THEN [current_hp EXCEPT ![action.target] = @ - d]
         ELSE current_hp
    ELSE IF IsItem(action.technique) /\ action.user \in Players
    THEN [current_hp EXCEPT ![action.target] = hp(action.target)]
    ELSE IF IsCondition(action.technique)
    THEN IF action.technique = "poison"
         THEN [current_hp EXCEPT ![action.target] = @ - d]
         ELSE current_hp
    ELSE current_hp

\* result_tech["should_tackle"]
should_tackle(action, d) ==
    /\ IsTechnique(action.technique) /\ action.user \in Monsters
    /\ action.technique \in Damaging
    /\ d # 0

\* mutant: the ledger is keyed by the user of the action
damage_map_keyed_by_user(action, d) ==
    IF should_tackle(action, d)
    THEN [x \in DOMAIN _damage_map \cup {action.user} |->
             IF x = action.user
             THEN (IF x \in DOMAIN _damage_map THEN _damage_map[x] ELSE {})
                  \cup {action.target}
             ELSE _damage_map[x]]
    ELSE _damage_map

\* mutant: the entry of the target is created whether damage was done or not
damage_map_touched(action, d) ==
    [x \in DOMAIN _damage_map \cup ({action.target} \cap Monsters) |->
        (IF x \in DOMAIN _damage_map THEN _damage_map[x] ELSE {})
        \cup (IF x = action.target /\ should_tackle(action, d)
              THEN {action.user} ELSE {})]

\* perform_action: self._damage_map[target].add(user)
damage_map_after(action, d) ==
    IF should_tackle(action, d)
    THEN [x \in DOMAIN _damage_map \cup {action.target} |->
             IF x = action.target
             THEN (IF x \in DOMAIN _damage_map THEN _damage_map[x] ELSE {})
                  \cup {action.user}
             ELSE _damage_map[x]]
    ELSE _damage_map

\* mutant: the technique hits only above the draw
hit_above(tech_accuracy, v) == tech_accuracy > v

\* LocalDamageEffect.apply: hit
hit(tech_accuracy, v) == tech_accuracy >= v

\* mutant: the effect does not read the draw of the round
value_fixed == Min(Draws)

\* LocalDamageEffect.apply: value, read from game_variables
value == game_variables.random_tech_hit

\* LocalDamageEffect.apply: the result for a technique of accuracy
\* tech_accuracy under the draw v, when the damage computed for a hit is
\* calculated, and the health it leaves a target of health target_hp
apply(tech_accuracy, v, calculated, target_hp) ==
    LET damage == IF hit(tech_accuracy, v) THEN calculated ELSE 0
    IN  [hit |-> hit(tech_accuracy, v),
         damage |-> damage,
         should_tackle |-> damage # 0,
         success |-> damage # 0,
         current_hp |-> IF hit(tech_accuracy, v)
                        THEN target_hp - calculated ELSE target_hp]

\* the results the effect of an action can have under the draw v: those
\* of LocalDamageEffect.apply for a damage technique; a condition that does
\* damage; nothing for the others
Outcomes(action, v) ==
    IF action.technique \in Damaging /\ action.user \in Monsters
    THEN {apply(accuracy(action.technique), v, calculated,
                current_hp[action.target]) :
             calculated \in IF action.technique = "slam" THEN Lethal
                            ELSE Damages}
    ELSE IF action.technique = "poison"
    THEN {[hit |-> FALSE, damage |-> 8, should_tackle |-> FALSE,
           success |-> FALSE, current_hp |-> current_hp[action.target] - 8]}
    ELSE {[hit |-> FALSE, damage |-> 0, should_tackle |-> FALSE,
           success |-> FALSE, current_hp |-> current_hp[action.target]]}

\* whether a retreat can succeed with this action
Escapes(action) ==
    IF action.technique = "menu_run" /\ action.user \in Monsters
    THEN BOOLEAN ELSE {FALSE}

\* a monster referenced by the action has no health left and is not fainted yet
stale(action) ==
    \E m \in {action.user, action.target} \cap Monsters :
        current_hp[m] <= 0 /\ ~has_status(m, "faint")

\* mutant: the follow-ups are scheduled a second time
follow_ups_twice ==
    <<"check_party_hp", "animate_party_status", "animate_xp_message",
      "check_party_hp", "animate_party_status", "animate_xp_message">>

\* the follow-ups handle_action_queue schedules
follow_ups == <<"check_party_hp", "animate_party_status", "animate_xp_message">>

\* mutant: the entries are tagged with the round before
log_action_round_before(log, actions) ==
    IF log_kept THEN log \o [i \in DOMAIN actions |-> <<_turn - 1, actions[i]>>]
    ELSE log

\* enqueue_action: self._log_action after the actions were enqueued, each
\* tagged with the round it was enqueued in
log_action(log, actions) ==
    IF log_kept THEN log \o [i \in DOMAIN actions |-> <<_turn, actions[i]>>]
    ELSE log

\* handle_action_queue on the queue q, with the log as enqueue_action left
\* it: pop the last entry, perform it and schedule the follow-ups
HandleActionQueue(q, log) ==
    IF q = <<>>
    THEN /\ _action_queue' = q
         /\ _log_action' = log
         /\ UNCHANGED <<current_hp, _damage_map, tasks, last_exec, _run,
                        players, monsters_in_play, max_position>>
    ELSE LET action == q[Len(q)]
         IN  \E result \in Outcomes(action, value), ran \in Escapes(action) :
               /\ current_hp' = hp_after(action, result.damage)
               /\ _damage_map' = damage_map_after(action, result.damage)
               /\ last_exec' = [user |-> action.user,
                                technique |-> action.technique,
                                target |-> action.target,
                                stale |-> stale(action),
                                should_tackle |->
                                    should_tackle(action, result.damage),
                                hit |-> result.hit,
                                damage |-> result.damage,
                                success |-> result.success]
               /\ tasks' = tasks \o follow_ups
               /\ IF ran
                  THEN /\ _run' = TRUE
                       /\ _action_queue' = <<>>
                       /\ _log_action' = <<>>
                       /\ max_position' = [p \in Players |-> 1]
                       /\ players' = SelectSeq(players,
                                        LAMBDA p : p # owner(action.user))
                       /\ monsters_in_play' =
                            [monsters_in_play EXCEPT ![owner(action.user)] = <<>>]
                  ELSE /\ _action_queue' = SubSeq(q, 1, Len(q) - 1)
                       /\ _log_action' = log
                       /\ UNCHANGED <<_run, players, monsters_in_play,
                                      max_position>>

\* self.phase = new_phase; self.transition_phase(new_phase) in update
SetPhase(new) ==
    /\ phase' = new
    /\ edge' = <<phase, new>>
    /\ entered' = [phase |-> new, calls |-> 1, dismissed |-> FALSE]

\* mutant: update runs the state machine while tasks are pending
CanUpdate_with_pending_tasks == ~gate

\* update runs the state machine when no task is pending and no blocking
\* state is on top
CanUpdate == tasks = <<>> /\ ~gate

\* ------------------------------------------------------------------ update
\* transition_phase("post action phase"): the actions enqueued for the
\* conditions of the monsters ms; valid holds the monsters whose condition
\* validates
RECURSIVE condition_actions(_, _)
condition_actions(ms, valid) ==
    IF ms = <<>> THEN <<>>
    ELSE (IF Head(ms) \in valid
          THEN [i \in DOMAIN status[Head(ms)] |->
                   EnqueuedAction(NoUser, status[Head(ms)][i], Head(ms))]
          ELSE <<>>)
         \o condition_actions(Tail(ms), valid)

\* transition_phase: the task that pushes a WaitForInputState
transition_tasks(new) ==
    IF new \in {"draw match", "has winner"} THEN <<"push_state">> ELSE <<>>

\* transition_phase: var["battle_last_result"] once the phase new is entered
battle_last_result(new) ==
    CASE new = "draw match" -> "draw"
      [] new = "has winner" ->
            IF remaining_players[1] = players[1] THEN "won" ELSE "lost"
      [] OTHER -> game_variables.battle_last_result

\* transition_phase: battle.outcome of the record it builds
battle_outcome(new) ==
    CASE new = "draw match" -> "draw"
      [] new = "has winner" ->
            IF remaining_players[1] = players[1] THEN "won" ELSE "lost"

\* mutant: the battle is recorded whether the opponent is a trainer or not
transition_battles_always(new) ==
    IF new \in {"draw match", "has winner"}
    THEN Append(battles, battle_outcome(new)) ELSE battles

\* transition_phase: players[0].battles once the phase new is entered
transition_battles(new) ==
    IF new \in {"draw match", "has winner"} /\ is_trainer_battle
    THEN Append(battles, battle_outcome(new)) ELSE battles

\* mutant: the counter of a condition is advanced whether it validates or not
condition_nr_turn_always(valid) ==
    [m \in Monsters |->
        IF m \in Range(active_monsters) /\ status[m] # <<>>
        THEN nr_turn[m] + 1 ELSE nr_turn[m]]

\* transition_phase("post action phase"): condition.nr_turn += 1 for the
\* conditions that validate
condition_nr_turn(valid) ==
    [m \in Monsters |-> IF m \in valid THEN nr_turn[m] + 1 ELSE nr_turn[m]]

\* update, phase "ready": housekeeping is entered
UpdateReady ==
    /\ CanUpdate
    /\ phase = "ready"
    /\ SetPhase(determine_phase(phase))
    /\ _turn' = _turn + 1
    /\ max_position' = fill_max_position
    /\ monsters_in_play' = fill_monsters_in_play(_turn' > 1)
    /\ asks' = fill_asks(_turn' > 1)
    /\ UNCHANGED <<players, current_hp, status, _action_queue, _decision_queue,
                   _damage_map, _run, tasks, gate, menus, is_trainer_battle,
                   potions, last_exec, harness_vars, evolution, _log_action, faint_log, game_variables,
                   battles, nr_turn>>

\* update, phase "housekeeping phase": wait for the positions to be filled,
\* then enter the decision phase, run the decision maker and open the first
\* menu
UpdateHousekeeping ==
    /\ CanUpdate
    /\ phase = "housekeeping phase"
    /\ max_position' = determine_phase_max_position(phase)
    /\ IF determine_phase(phase) = "None"
       THEN UNCHANGED <<phase, edge, entered, _action_queue, _log_action,
                        _decision_queue, menus, game_variables>>
       ELSE /\ SetPhase(determine_phase(phase))
            /\ \E draw \in Draws :
                 game_variables' = [game_variables EXCEPT !.random_tech_hit = draw]
            /\ \E choice \in {f \in [Range(monsters_in_play[Ai]) -> Techniques \X Monsters] :
                                 \A m \in DOMAIN f : f[m] \in next_use_choices(m)} :
                 LET dq == IF _decision_queue = <<>>
                           THEN monsters_in_play[Human]
                           ELSE _decision_queue
                     enq == IF _decision_queue = <<>> /\ Ai \in ai_players
                            THEN AIAll(monsters_in_play[Ai], choice)
                            ELSE <<>>
                 IN  /\ _action_queue' = _action_queue \o enq
                     /\ _log_action' = log_action(_log_action, enq)
                     /\ IF dq = <<>>
                        THEN _decision_queue' = dq /\ menus' = menus
                        ELSE /\ _decision_queue' = SubSeq(dq, 1, Len(dq) - 1)
                             /\ menus' = menus \cup {dq[Len(dq)]}
    /\ UNCHANGED <<players, monsters_in_play, current_hp, status, _damage_map,
                   _turn, _run, tasks, gate, asks, is_trainer_battle, potions,
                   last_exec, harness_vars, evolution, faint_log, battles, nr_turn>>

\* update, phase "decision phase"
UpdateDecision ==
    /\ CanUpdate
    /\ phase = "decision phase"
    /\ IF determine_phase(phase) = "None"
       THEN /\ UNCHANGED <<phase, edge, entered>>
            /\ IF _decision_queue = <<>>
               THEN UNCHANGED <<_decision_queue, menus>>
               ELSE /\ _decision_queue' =
                         SubSeq(_decision_queue, 1, Len(_decision_queue) - 1)
                    /\ menus' = menus \cup {_decision_queue[Len(_decision_queue)]}
       ELSE /\ SetPhase(determine_phase(phase))
            /\ UNCHANGED <<_decision_queue, menus>>
    /\ tasks' = tasks \o transition_tasks(phase')
    /\ UNCHANGED <<players, max_position, monsters_in_play, current_hp, status,
                   _action_queue, _damage_map, _turn, _run, gate, asks,
                   is_trainer_battle, potions, last_exec, harness_vars, evolution, _log_action,
                   faint_log, game_variables, battles, nr_turn>>

\* the values speed_test can return
Speeds == {0, 1}

\* update, phase "pre action phase": the queue is sorted and the first
\* action is performed
UpdatePreAction ==
    /\ CanUpdate
    /\ phase = "pre action phase"
    /\ SetPhase(determine_phase(phase))
    /\ \E speed \in [DOMAIN _action_queue -> Speeds] :
         HandleActionQueue(sort_action_queue(_action_queue,
             [i \in DOMAIN _action_queue |->
                 rank_action(_action_queue[i], speed[i])]), _log_action)
    /\ UNCHANGED <<status, _decision_queue, _turn, gate, menus, asks,
                   is_trainer_battle, potions, harness_vars, evolution, faint_log, game_variables,
                   battles, nr_turn>>

\* update, phase "action phase"
UpdateAction ==
    /\ CanUpdate
    /\ phase = "action phase"
    /\ IF determine_phase(phase) = "None"
       THEN /\ UNCHANGED <<phase, edge, entered, nr_turn>>
            /\ HandleActionQueue(_action_queue, _log_action)
       ELSE /\ SetPhase(determine_phase(phase))
            /\ \E valid \in SUBSET {m \in Range(active_monsters) : status[m] # <<>>} :
                 /\ nr_turn' = condition_nr_turn(valid)
                 /\ HandleActionQueue(
                        _action_queue \o condition_actions(active_monsters, valid),
                        log_action(_log_action,
                                   condition_actions(active_monsters, valid)))
    /\ UNCHANGED <<status, _decision_queue, _turn, gate, menus, asks,
                   is_trainer_battle, potions, harness_vars, evolution, faint_log,
                   game_variables, battles>>

\* update, phase "post action phase"
UpdatePostAction ==
    /\ CanUpdate
    /\ phase = "post action phase"
    /\ IF determine_phase(phase) = "None"
       THEN /\ UNCHANGED <<phase, edge, entered>>
            /\ HandleActionQueue(_action_queue, _log_action)
       ELSE /\ SetPhase(determine_phase(phase))
            /\ UNCHANGED <<_action_queue, _log_action, current_hp, _damage_map,
                           tasks, last_exec, _run, players, monsters_in_play,
                           max_position>>
    /\ UNCHANGED <<status, _decision_queue, _turn, gate, menus, asks,
                   is_trainer_battle, potions, harness_vars, evolution, faint_log, game_variables,
                   battles, nr_turn>>

\* update, phase "resolve match"
UpdateResolve ==
    /\ CanUpdate
    /\ phase = "resolve match"
    /\ SetPhase(determine_phase(phase))
    /\ IF phase' = "housekeeping phase"
       THEN /\ _turn < MaxTurn
            /\ _turn' = _turn + 1
            /\ max_position' = fill_max_position
            /\ monsters_in_play' = fill_monsters_in_play(_turn' > 1)
            /\ asks' = fill_asks(_turn' > 1)
            /\ tasks' = tasks
       ELSE /\ tasks' = tasks \o transition_tasks(phase')
            /\ UNCHANGED <<_turn, max_position, monsters_in_play, asks>>
    /\ game_variables' =
         [game_variables EXCEPT !.battle_last_result = battle_last_result(phase')]
    /\ battles' = transition_battles(phase')
    /\ UNCHANGED <<players, current_hp, status, _action_queue, _decision_queue,
                   _damage_map, _run, gate, menus, is_trainer_battle, potions,
                   last_exec, harness_vars, evolution, _log_action, faint_log, nr_turn>>

\* monster.evolutions of the monsters of players[0]: the path and the level
\* threshold of each evolution
evolutions(m) ==
    CASE m = "h1" -> <<[path |-> "standard", at_level |-> 5],
                       [path |-> "gender", at_level |-> 6]>>
      [] m = "h2" -> <<[path |-> "season", at_level |-> 3]>>
      [] OTHER -> <<>>

\* the evolutions whose path has a condition of its own, as pairs of the
\* monster and the position in its evolutions
Conditional ==
    {<<m, i>> \in Monsters \X (1..2) :
        i \in DOMAIN evolutions(m) /\ evolutions(m)[i].path # "standard"}

\* the outcomes of the path conditions (gender, element, technique, location,
\* stats, season, daytime) a battle can end with
Holding == {h \in SUBSET Conditional : <<"h1", 2>> \in h}

\* evolve, inner loop: the question_evolution calls for the monster m when
\* the path conditions of holds hold
questions(m, holds) ==
    SelectSeq([i \in DOMAIN evolutions(m) |-> <<m, i>>],
              LAMBDA e : /\ evolutions(m)[e[2]].at_level <= level(m)
                         /\ (evolutions(m)[e[2]].path = "standard" \/ e \in holds))

\* evolve: the question_evolution calls, in order, over the monsters ms
RECURSIVE evolve(_, _)
evolve(ms, holds) ==
    IF ms = <<>> THEN <<>>
    ELSE questions(Head(ms), holds) \o evolve(Tail(ms), holds)

NoEvolution == [calls |-> 0, holds |-> {}, questions |-> <<>>]

\* update, phases "ran away", "draw match", "has winner": end combat is
\* entered; end_combat cleans up, pops the states on top of the combat state
\* and resets the phase
UpdateOutcome ==
    /\ CanUpdate
    /\ phase \in {"ran away", "draw match", "has winner"}
    /\ edge' = <<phase, determine_phase(phase)>>
    /\ entered' = [phase |-> determine_phase(phase), calls |-> 1,
                    dismissed |-> FALSE]
    /\ phase' = "None"
    /\ max_position' = [p \in Players |->
                           IF p \in Range(players) THEN 1 ELSE max_position[p]]
    /\ _action_queue' = <<>>
    /\ _log_action' = <<>>
    /\ menus' = {}
    /\ asks' = 0
    /\ \E holds \in Holding :
         evolution' = [calls |-> evolution.calls + 1,
                       holds |-> holds,
                       questions |-> evolution.questions
                                     \o evolve(monsters(players[1]), holds)]
    /\ UNCHANGED <<players, monsters_in_play, current_hp, status,
                   _decision_queue, _damage_map, _turn, _run, tasks, gate,
                   is_trainer_battle, potions, last_exec,
                   harness_vars, faint_log, game_variables,
                   battles, nr_turn>>

\* ------------------------------------------------------------------- tasks
\* the start-up task of __init__: setattr(self, "phase", "ready")
TaskReady ==
    /\ tasks # <<>> /\ Head(tasks) = "ready"
    /\ tasks' = Tail(tasks)
    /\ phase' = "ready"
    /\ entered' = [entered EXCEPT !.calls = 0]
    /\ UNCHANGED <<edge, players, max_position, monsters_in_play, current_hp,
                   status, _action_queue, _decision_queue, _damage_map, _turn,
                   _run, gate, menus, asks, is_trainer_battle, potions,
                   last_exec, harness_vars, evolution, _log_action, faint_log, game_variables,
                   battles, nr_turn>>

\* mutant: a monster with exactly no health left is not fainted
to_faint_below_zero == {m \in Range(active_monsters) :
                           current_hp[m] < 0 /\ ~has_status(m, "faint")}

\* check_party_hp: the monsters it finds without health and not fainted
to_faint == {m \in Range(active_monsters) :
                current_hp[m] <= 0 /\ ~has_status(m, "faint")}

\* the queue after remove_monster_actions_from_queue for each monster of ms
RECURSIVE purge_all(_, _)
purge_all(q, ms) ==
    IF ms = <<>> THEN q
    ELSE purge_all(IF Head(ms) \in to_faint
                   THEN remove_monster_actions_from_queue(q, Head(ms))
                   ELSE q,
                   Tail(ms))

\* faint_monster: current_hp, status and the damage map once the monsters of
\* F have fainted
\* mutant: the condition of a fainting monster is left as it is
faint_status_kept(F) == status

\* mutant: the whole ledger is dropped when a monster faints
faint_damage_map_cleared(F) == [x \in {} |-> {}]

faint_hp(F) == [m \in Monsters |-> IF m \in F THEN 0 ELSE current_hp[m]]
faint_status(F) == [m \in Monsters |-> IF m \in F THEN <<"faint">> ELSE status[m]]
faint_damage_map(F) == [x \in DOMAIN _damage_map \ F |-> _damage_map[x]]

\* monster.total_experience and monster.experience_modifier
total_experience(m) == 103
experience_modifier(m) == 2

\* mutant: the modifier is applied before the division
awarded_exp_scaled_first(m, winners) ==
    (total_experience(m) * experience_modifier(m))
        \div (level(m) * Cardinality(winners))

\* faint_monster: awarded_exp for the fainted monster m and its contributors
awarded_exp(m, winners) ==
    (total_experience(m) \div (level(m) * Cardinality(winners)))
        * experience_modifier(m)

\* faint_monster: winners.give_experience(awarded_exp) for each contributor
\* of the ledger entry of m; nothing is given without an entry
give_experience(m) ==
    IF m \in DOMAIN _damage_map
    THEN [w \in _damage_map[m] |-> awarded_exp(m, _damage_map[m])]
    ELSE [w \in {} |-> 0]

\* the task check_party_hp
TaskCheckPartyHp ==
    /\ tasks # <<>> /\ Head(tasks) = "check_party_hp"
    /\ tasks' = Tail(tasks)
    /\ _action_queue' = purge_all(_action_queue, active_monsters)
    /\ current_hp' = faint_hp(to_faint)
    /\ status' = faint_status(to_faint)
    /\ _damage_map' = faint_damage_map(to_faint)
    /\ faint_log' = [count |-> [m \in Monsters |->
                                  IF m \in to_faint THEN faint_log.count[m] + 1
                                  ELSE faint_log.count[m]],
                     last |-> to_faint,
                     given |-> [m \in to_faint |-> give_experience(m)]]
    /\ nr_turn' = [m \in Monsters |-> IF m \in to_faint THEN 0 ELSE nr_turn[m]]
    /\ UNCHANGED <<phase, edge, entered, players, max_position, monsters_in_play,
                   _decision_queue, _turn, _run, gate, menus, asks,
                   is_trainer_battle, potions, last_exec, harness_vars, evolution, _log_action,
                   game_variables, battles>>

\* the task animate_party_status: animate_monster_faint takes the fainted
\* monsters out of play
TaskAnimatePartyStatus ==
    /\ tasks # <<>> /\ Head(tasks) = "animate_party_status"
    /\ tasks' = Tail(tasks)
    /\ monsters_in_play' =
         [p \in Players |-> SelectSeq(monsters_in_play[p], LAMBDA m : ~fainted(m))]
    /\ UNCHANGED <<phase, edge, entered, players, max_position, current_hp, status,
                   _action_queue, _decision_queue, _damage_map, _turn, _run,
                   gate, menus, asks, is_trainer_battle, potions, last_exec,
                   harness_vars, evolution, _log_action, faint_log, game_variables,
                   battles, nr_turn>>

\* the task animate_xp_message
TaskAnimateXpMessage ==
    /\ tasks # <<>> /\ Head(tasks) = "animate_xp_message"
    /\ tasks' = Tail(tasks)
    /\ UNCHANGED <<phase, edge, entered, players, max_position, monsters_in_play,
                   current_hp, status, _action_queue, _decision_queue,
                   _damage_map, _turn, _run, gate, menus, asks,
                   is_trainer_battle, potions, last_exec, harness_vars, evolution, _log_action, faint_log, game_variables,
                   battles, nr_turn>>

\* the task of "draw match" and "has winner": push_state(WaitForInputState())
TaskPushState ==
    /\ tasks # <<>> /\ Head(tasks) = "push_state"
    /\ tasks' = Tail(tasks)
    /\ gate' = TRUE
    /\ UNCHANGED <<phase, edge, entered, players, max_position, monsters_in_play,
                   current_hp, status, _action_queue, _decision_queue,
                   _damage_map, _turn, _run, menus, asks, is_trainer_battle,
                   potions, last_exec, harness_vars, evolution, _log_action, faint_log, game_variables,
                   battles, nr_turn>>

\* ------------------------------------------------------------------ inputs
\* WaitForInputState.process_event: button A pops the state
Acknowledge ==
    /\ gate
    /\ gate' = FALSE
    /\ entered' = [entered EXCEPT !.dismissed = TRUE]
    /\ UNCHANGED <<phase, edge, players, max_position, monsters_in_play,
                   current_hp, status, _action_queue, _decision_queue,
                   _damage_map, _turn, _run, tasks, menus, asks,
                   is_trainer_battle, potions, last_exec, harness_vars, evolution, _log_action, faint_log, game_variables,
                   battles, nr_turn>>

\* the human player picks a technique and a target in the action menu of m
HumanTechnique ==
    \E m \in menus, target \in Range(monsters_in_play[Ai]) :
        /\ menus' = menus \ {m}
        /\ _action_queue' = _action_queue \o <<EnqueuedAction(m, "tackle", target)>>
        /\ _log_action' =
             log_action(_log_action, <<EnqueuedAction(m, "tackle", target)>>)
        /\ UNCHANGED <<phase, edge, entered, players, max_position, monsters_in_play,
                       current_hp, status, _decision_queue, _damage_map, _turn,
                       _run, tasks, gate, asks, is_trainer_battle, potions,
                       last_exec, harness_vars, evolution, faint_log, game_variables,
                   battles, nr_turn>>

\* the human player picks in the action menu of m the technique that
\* always hits and takes all the health of its target
HumanLethal ==
    \E m \in menus, target \in Range(monsters_in_play[Ai]) :
        /\ menus' = menus \ {m}
        /\ _action_queue' = _action_queue \o <<EnqueuedAction(m, "slam", target)>>
        /\ _log_action' =
             log_action(_log_action, <<EnqueuedAction(m, "slam", target)>>)
        /\ UNCHANGED <<phase, edge, entered, players, max_position, monsters_in_play,
                       current_hp, status, _decision_queue, _damage_map, _turn,
                       _run, tasks, gate, asks, is_trainer_battle, potions,
                       last_exec, harness_vars, evolution, faint_log, game_variables,
                   battles, nr_turn>>

\* the human player picks "run" in the action menu of m: the retreat is
\* queued as a technique of m
HumanRun ==
    \E m \in menus, target \in Range(monsters_in_play[Ai]) :
        /\ menus' = menus \ {m}
        /\ _action_queue' = _action_queue \o <<EnqueuedAction(m, "menu_run", target)>>
        /\ _log_action' =
             log_action(_log_action, <<EnqueuedAction(m, "menu_run", target)>>)
        /\ UNCHANGED <<phase, edge, entered, players, max_position, monsters_in_play,
                       current_hp, status, _decision_queue, _damage_map, _turn,
                       _run, tasks, gate, asks, is_trainer_battle, potions,
                       last_exec, harness_vars, evolution, faint_log, game_variables,
                   battles, nr_turn>>

\* the human player runs while the decision phase is waiting (the case of
\* determine_phase, "decision phase": "if player runs"): the player leaves
\* the battle at once
PlayerRuns ==
    /\ phase = "decision phase"
    /\ menus # {}
    /\ menus' = {}
    /\ _run' = TRUE
    /\ players' = SelectSeq(players, LAMBDA p : p # Human)
    /\ monsters_in_play' = [monsters_in_play EXCEPT ![Human] = <<>>]
    /\ UNCHANGED <<phase, edge, entered, max_position, current_hp, status,
                   _action_queue, _decision_queue, _damage_map, _turn, tasks,
                   gate, asks, is_trainer_battle, potions, last_exec,
                   harness_vars, evolution, _log_action, faint_log, game_variables,
                   battles, nr_turn>>

\* ask_player_for_monster, add: the human player picks the replacement m
HumanReplacement ==
    \E m \in Range(monsters(Human)) :
        /\ asks > 0
        /\ current_hp[m] # 0
        /\ m \notin Range(active_monsters)
        /\ monsters_in_play' =
             [monsters_in_play EXCEPT ![Human] = Append(@, m)]
        /\ asks' = asks - 1
        /\ UNCHANGED <<phase, edge, entered, players, max_position, current_hp, status,
                       _action_queue, _decision_queue, _damage_map, _turn,
                       _run, tasks, gate, menus, is_trainer_battle, potions,
                       last_exec, harness_vars, evolution, _log_action, faint_log, game_variables,
                   battles, nr_turn>>

\* ------------------------------------------------------------ specification
\* the monsters that can carry a condition when the battle starts
Afflicted == {"h1", "a1"}

\* the monsters that can be short of health when the battle starts
Wounded == {"a1"}

\* player.max_position of the two parties when the battle starts: single
\* battles, and double battles with two positions on one side
Formations == {f \in [Players -> 1..2] : \E p \in Players : f[p] = 1}

\* the rosters of a battle between two parties of two monsters
TwoEach == [p \in Players |-> Party(p)]

\* the rosters of a battle between two single-combatant parties
OneEach == [p \in Players |-> <<Party(p)[1]>>]

\* CombatState.__init__: the state a battle starts in, for rosters r, the
\* positions of one of the formations, and the log kept or not
Start(r, formations, kept) ==
    /\ phase = "None"
    /\ edge = <<"None", "None">>
    /\ entered = [phase |-> "begin", calls |-> 1, dismissed |-> FALSE]
    /\ players = <<Human, Ai>>
    /\ max_position \in formations
    /\ monsters_in_play = [p \in Players |-> <<>>]
    /\ is_trainer_battle \in BOOLEAN
    /\ potions \in IF is_trainer_battle THEN {0, MaxPotions} ELSE {0}
    /\ \E W \in IF potions > 0 THEN {{}, Wounded} ELSE {{}} :
         current_hp = [m \in Monsters |-> IF m \in W THEN 2 ELSE hp(m)]
    /\ \E P \in {{}, Afflicted} :
         status = [m \in Monsters |-> IF m \in P THEN <<"poison">> ELSE <<>>]
    /\ _action_queue = <<>>
    /\ _decision_queue = <<>>
    /\ _damage_map = [x \in {} |-> {}]
    /\ _turn = 0
    /\ _run = FALSE
    /\ tasks = <<"ready">>
    /\ gate = FALSE
    /\ menus = {}
    /\ asks = 0
    /\ last_exec = NoAction
    /\ trace = <<>>
    /\ q_ids = <<>>
    /\ q_keys = <<>>
    /\ q_op = NoOp
    /\ faint_log = NoFaint
    /\ ai = NoAi
    /\ game_variables = NoVariables
    /\ battles = <<>>
    /\ nr_turn = [m \in Monsters |-> 0]
    /\ _log_action = <<>>
    /\ evolution = NoEvolution
    /\ roster = r
    /\ log_kept = kept
    /\ cond = NoCondition

Init == Start(TwoEach, Formations, FALSE)


Next ==
    \/ TaskReady
    \/ UpdateReady
    \/ UpdateHousekeeping
    \/ UpdateDecision
    \/ UpdatePreAction
    \/ UpdateAction
    \/ UpdatePostAction
    \/ UpdateResolve
    \/ UpdateOutcome
    \/ TaskCheckPartyHp
    \/ TaskAnimatePartyStatus
    \/ TaskAnimateXpMessage
    \/ TaskPushState
    \/ Acknowledge
    \/ HumanTechnique
    \/ HumanRun
    \/ PlayerRuns
    \/ HumanReplacement

Spec == Init /\ [][Next]_vars

\* one position for each party
OnePosition == {[p \in Players |-> 1]}

\* the wild battles with one position for each party, with the log kept
LInit == Start(TwoEach, OnePosition, TRUE) /\ ~is_trainer_battle

LSpec == LInit /\ [][Next]_vars

\* the wild battles between two single-combatant parties in which the
\* monster of the human party has the technique that always hits and takes
\* all the health of its target
EInit == Start(OneEach, OnePosition, TRUE) /\ ~is_trainer_battle

ENext ==
    \/ TaskReady
    \/ UpdateReady
    \/ UpdateHousekeeping
    \/ UpdateDecision
    \/ UpdatePreAction
    \/ UpdateAction
    \/ UpdatePostAction
    \/ UpdateResolve
    \/ UpdateOutcome
    \/ TaskCheckPartyHp
    \/ TaskAnimatePartyStatus
    \/ TaskAnimateXpMessage
    \/ TaskPushState
    \/ Acknowledge
    \/ HumanLethal
    \/ HumanRun
    \/ PlayerRuns

ESpec == EInit /\ [][ENext]_vars

\* the game loop calls update on every tick and runs the scheduled tasks
\* when they are due, and the player answers the dialogs that are open
EFair == ESpec /\ WF_vars(ENext)

\* ------------------------------------------------------------ queue harness
\* The queue operations of CombatState on their own: actions are enqueued,
\* the queue is sorted on entry to the action phase, and is then drained by
\* handle_action_queue while swaps rewrite targets and removals purge it.

\* enqueue_action
enqueue_action(q, user, technique, target) ==
    Append(q, EnqueuedAction(user, technique, target))

\* the actions the harness enqueues: techniques of monsters in play (one of
\* them aimed at its own user) and an item of the AI trainer
QActions ==
    {EnqueuedAction("h1", "tackle", "a1"), EnqueuedAction("a1", "tackle", "h1"),
     EnqueuedAction("a1", "tackle", "a1"), EnqueuedAction("h1", "skip", "a1"),
     EnqueuedAction(Ai, "potion1", "a1")}

\* the swaps of the harness: the monster in play and its replacement
QSwaps == {<<"h1", "h2">>, <<"a1", "a2">>}

QInit ==
    /\ phase = "decision phase"
    /\ edge = <<"housekeeping phase", "decision phase">>
    /\ entered = [phase |-> "decision phase", calls |-> 1, dismissed |-> FALSE]
    /\ players = <<Human, Ai>>
    /\ max_position = [p \in Players |-> 1]
    /\ monsters_in_play = [p \in Players |-> <<Party(p)[1]>>]
    /\ current_hp = [m \in Monsters |-> hp(m)]
    /\ status = [m \in Monsters |-> <<>>]
    /\ _action_queue = <<>>
    /\ _decision_queue = <<>>
    /\ _damage_map = [x \in {} |-> {}]
    /\ _turn = 1
    /\ _run = FALSE
    /\ tasks = <<>>
    /\ gate = FALSE
    /\ menus = {}
    /\ asks = 0
    /\ is_trainer_battle = FALSE
    /\ potions = 0
    /\ last_exec = NoAction
    /\ trace = <<>>
    /\ q_ids = <<>>
    /\ q_keys = <<>>
    /\ q_op = NoOp
    /\ faint_log = NoFaint
    /\ ai = NoAi
    /\ \E draw \in Draws :
         game_variables = [NoVariables EXCEPT !.random_tech_hit = draw]
    /\ battles = <<>>
    /\ nr_turn = [m \in Monsters |-> 0]
    /\ _log_action = <<>>
    /\ evolution = NoEvolution
    /\ roster = [p \in Players |-> Party(p)]
    /\ log_kept = FALSE
    /\ cond = NoCondition

main_frame == <<players, max_position, monsters_in_play, current_hp, status,
                _decision_queue, _damage_map, _turn, _run, tasks, gate, menus,
                asks, is_trainer_battle, potions, last_exec, faint_log, ai,
                game_variables, battles, nr_turn, evolution,
              roster, log_kept, cond>>

\* enqueue_action during the decision phase
QEnqueue ==
    \E a \in QActions :
        /\ phase = "decision phase"
        /\ Len(_action_queue) < MaxQueue
        /\ _action_queue' = enqueue_action(_action_queue, a.user, a.technique, a.target)
        /\ _log_action' = log_action(_log_action, <<a>>)
        /\ q_ids' = Append(q_ids, Len(q_ids) + 1)
        /\ q_keys' = Append(q_keys, <<0, 0>>)
        /\ q_op' = [NoOp EXCEPT !.name = "enqueue"]
        /\ UNCHANGED <<phase, edge, entered, trace>>
        /\ UNCHANGED main_frame

\* transition_phase("action phase"): sort_action_queue
QSort ==
    \E speed \in [DOMAIN _action_queue -> Speeds] :
        LET keys == [i \in DOMAIN _action_queue |->
                        rank_action(_action_queue[i], speed[i])]
        IN  /\ phase = "decision phase"
            /\ SetPhase("action phase")
            /\ _action_queue' = sort_action_queue(_action_queue, keys)
            /\ q_ids' = Pick(q_ids, SortOrder(keys))
            /\ q_keys' = Pick(keys, SortOrder(keys))
            /\ q_op' = [NoOp EXCEPT !.name = "sort", !.before = _action_queue]
            /\ UNCHANGED <<trace, _log_action>>
            /\ UNCHANGED main_frame

\* handle_action_queue during the action phase
QPop ==
    /\ phase = "action phase"
    /\ _action_queue # <<>>
    /\ HandleActionQueue(_action_queue, _log_action)
    /\ trace' = Append(trace, [id |-> q_ids[Len(q_ids)],
                               key |-> q_keys[Len(q_keys)],
                               action |-> _action_queue[Len(_action_queue)]])
    /\ q_ids' = SubSeq(q_ids, 1, Len(_action_queue'))
    /\ q_keys' = SubSeq(q_keys, 1, Len(_action_queue'))
    /\ q_op' = [q_op EXCEPT !.name = "pop", !.before = _action_queue]
    /\ UNCHANGED <<phase, edge, entered, status, _decision_queue, _turn, gate, menus,
                   asks, is_trainer_battle, potions, faint_log, ai,
                   game_variables, battles, nr_turn, evolution,
                   roster, log_kept, cond>>

\* rewrite_action_queue_target(original, new) for a swap, in which new takes
\* the place of original in play
QRewrite ==
    \E swap \in QSwaps :
      LET original == swap[1]
          new == swap[2]
      IN
        /\ phase = "action phase"
        /\ q_op.name = "sort"
        /\ _action_queue' = rewrite_action_queue_target(_action_queue, original, new)
        /\ monsters_in_play' =
             [p \in Players |->
                 [i \in DOMAIN monsters_in_play[p] |->
                     IF monsters_in_play[p][i] = original THEN new
                     ELSE monsters_in_play[p][i]]]
        /\ q_op' = [name |-> "rewrite", original |-> original, new |-> new,
                    before |-> _action_queue, hp_before |-> current_hp[original]]
        /\ UNCHANGED <<phase, edge, entered, trace, q_ids, q_keys>>
        /\ UNCHANGED <<players, max_position, current_hp, status,
                       _decision_queue, _damage_map, _turn, _run, tasks, gate,
                       menus, asks, is_trainer_battle, potions, last_exec,
                       faint_log, ai, game_variables, battles, nr_turn, _log_action, evolution,
                   roster, log_kept, cond>>

\* remove_monster_from_play(monster): remove_monster_actions_from_queue, and
\* animate_monster_faint takes the monster out of play
QRemove ==
    \E monster \in {"h1", "a1"} :
        /\ phase = "action phase"
        /\ q_op.name = "sort"
        /\ _action_queue' = remove_monster_actions_from_queue(_action_queue, monster)
        /\ monsters_in_play' =
             [p \in Players |-> SelectSeq(monsters_in_play[p],
                                          LAMBDA m : m # monster)]
        /\ q_ids' = Pick(q_ids, KeptByRemove(_action_queue, monster))
        /\ q_keys' = Pick(q_keys, KeptByRemove(_action_queue, monster))
        /\ q_op' = [NoOp EXCEPT !.name = "remove", !.original = monster,
                                !.before = _action_queue]
        /\ UNCHANGED <<phase, edge, entered, trace>>
        /\ UNCHANGED <<players, max_position, current_hp, status,
                       _decision_queue, _damage_map, _turn, _run, tasks, gate,
                       menus, asks, is_trainer_battle, potions, last_exec,
                       faint_log, ai, game_variables, battles, nr_turn, _log_action, evolution,
                   roster, log_kept, cond>>

QNext ==
    \/ QEnqueue
    \/ QSort
    \/ QPop
    \/ QRewrite
    \/ QRemove

QSpec == QInit /\ [][QNext]_vars

\* --------------------------------------------------- decision-maker harness
\* AI.track_next_use on its own: for a monster with the moves harness_moves,
\* every recharge state of the moves, every outcome of their validation and
\* every set of opponents in play.
AInit ==
    /\ phase = "decision phase"
    /\ edge = <<"housekeeping phase", "decision phase">>
    /\ entered = [phase |-> "decision phase", calls |-> 1, dismissed |-> FALSE]
    /\ players = <<Human, Ai>>
    /\ max_position = [p \in Players |-> IF p = Human THEN 2 ELSE 1]
    /\ \E n \in 0..2 :
         monsters_in_play = [p \in Players |->
             IF p = Human THEN SubSeq(Party(Human), 1, n) ELSE <<"a1">>]
    /\ current_hp = [m \in Monsters |-> hp(m)]
    /\ status = [m \in Monsters |-> <<>>]
    /\ _action_queue = <<>>
    /\ _decision_queue = <<>>
    /\ _damage_map = [x \in {} |-> {}]
    /\ _turn = 1
    /\ _run = FALSE
    /\ tasks = <<>>
    /\ gate = FALSE
    /\ menus = {}
    /\ asks = 0
    /\ is_trainer_battle = FALSE
    /\ potions = 0
    /\ last_exec = NoAction
    /\ trace = <<>>
    /\ q_ids = <<>>
    /\ q_keys = <<>>
    /\ q_op = NoOp
    /\ faint_log = NoFaint
    /\ \E next_use \in [Range(harness_moves) -> 0..1],
          valid \in SUBSET (Range(harness_moves) \X Range(Party(Human))) :
         ai = [next_use |-> next_use, valid |-> valid, result |-> NoResult]
    /\ game_variables = NoVariables
    /\ battles = <<>>
    /\ nr_turn = [m \in Monsters |-> 0]
    /\ _log_action = <<>>
    /\ evolution = NoEvolution
    /\ roster = [p \in Players |-> Party(p)]
    /\ log_kept = FALSE
    /\ cond = NoCondition

ai_frame == <<phase, edge, entered, players, max_position, monsters_in_play,
              current_hp, status, _action_queue, _decision_queue, _damage_map,
              _turn, _run, tasks, gate, menus, asks, is_trainer_battle,
              potions, last_exec, trace, q_ids, q_keys, q_op, faint_log,
              game_variables, battles, nr_turn, _log_action, evolution,
              roster, log_kept, cond>>

\* technique, target = self.track_next_use()
ATrack ==
    /\ ai.result = NoResult
    /\ \E r \in track_next_use(harness_moves, MaxMoves, ai.next_use,
                               opponents, ai.valid) :
         ai' = [ai EXCEPT !.result = r]
    /\ UNCHANGED ai_frame

\* transition_phase, decision phase: tech.recharge() for each move, after
\* the decision was made
ARecharge ==
    /\ ai.result # NoResult
    /\ ai' = [ai EXCEPT !.result = NoResult,
                        !.next_use = [x \in Range(harness_moves) |->
                                         IF ai.next_use[x] > 0
                                         THEN ai.next_use[x] - 1 ELSE 0]]
    /\ UNCHANGED ai_frame

ANext ==
    \/ ATrack
    \/ ARecharge

ASpec == AInit /\ [][ANext]_vars

\* -------------------------------------------------------- condition harness
\* CurrentHitPointsCondition.test on its own: for a target of every health,
\* every comparison of cmp_dict and integer and float values.

\* the keys of cmp_dict ("None" for None)
Comparisons == {"None", "<", "<=", ">", ">=", "==", "="}

\* the integer values and, in hundredths, the float values a condition is
\* built with; the floats are binary fractions, whose product with hp is exact
IntValues == {0, 1, 5, 10}
FloatValues == {0, 25, 50, 100}

\* mutant: no comparison given means greater-than
cmp_dict_default_gt(comparison, lhs, rhs) ==
    CASE comparison = "None" -> lhs > rhs
      [] comparison = "<" -> lhs < rhs
      [] comparison = "<=" -> lhs <= rhs
      [] comparison = ">" -> lhs > rhs
      [] comparison = ">=" -> lhs >= rhs
      [] comparison \in {"==", "="} -> lhs = rhs

\* cmp_dict[comparison](lhs, rhs)
cmp_dict(comparison, lhs, rhs) ==
    CASE comparison = "None" -> lhs >= rhs
      [] comparison = "<" -> lhs < rhs
      [] comparison = "<=" -> lhs <= rhs
      [] comparison = ">" -> lhs > rhs
      [] comparison = ">=" -> lhs >= rhs
      [] comparison \in {"==", "="} -> lhs = rhs

\* CurrentHitPointsCondition.test(target), both sides in hundredths: rhs is
\* target.hp * value for a float and the value itself for an integer
test(target, comparison, is_float, v) ==
    LET lhs == 100 * current_hp[target]
        rhs == IF is_float THEN hp(target) * v ELSE 100 * v
    IN  cmp_dict(comparison, lhs, rhs)

CInit ==
    /\ phase = "None"
    /\ edge = <<"None", "None">>
    /\ entered = [phase |-> "begin", calls |-> 1, dismissed |-> FALSE]
    /\ players = <<Human, Ai>>
    /\ max_position = [p \in Players |-> 1]
    /\ monsters_in_play = [p \in Players |-> <<>>]
    /\ \E h \in 0..hp("h1") :
         current_hp = [m \in Monsters |-> IF m = "h1" THEN h ELSE hp(m)]
    /\ status = [m \in Monsters |-> <<>>]
    /\ _action_queue = <<>>
    /\ _decision_queue = <<>>
    /\ _damage_map = [x \in {} |-> {}]
    /\ _turn = 0
    /\ _run = FALSE
    /\ tasks = <<>>
    /\ gate = FALSE
    /\ menus = {}
    /\ asks = 0
    /\ is_trainer_battle = FALSE
    /\ potions = 0
    /\ last_exec = NoAction
    /\ trace = <<>>
    /\ q_ids = <<>>
    /\ q_keys = <<>>
    /\ q_op = NoOp
    /\ faint_log = NoFaint
    /\ ai = NoAi
    /\ game_variables = NoVariables
    /\ battles = <<>>
    /\ nr_turn = [m \in Monsters |-> 0]
    /\ _log_action = <<>>
    /\ evolution = NoEvolution
    /\ roster = [p \in Players |-> Party(p)]
    /\ log_kept = FALSE
    /\ \E comparison \in Comparisons, is_float \in BOOLEAN :
         \E v \in IF is_float THEN FloatValues ELSE IntValues :
           cond = [comparison |-> comparison, is_float |-> is_float,
                   value |-> v, target |-> "h1", tested |-> FALSE,
                   result |-> FALSE]

cond_frame == <<phase, edge, entered, players, max_position, monsters_in_play,
                current_hp, status, _action_queue, _decision_queue, _damage_map,
                _turn, _run, tasks, gate, menus, asks, is_trainer_battle,
                potions, last_exec, trace, q_ids, q_keys, q_op, faint_log, ai,
                game_variables, battles, nr_turn, _log_action, evolution,
                roster, log_kept>>

\* condition.test(target)
CTest ==
    /\ ~cond.tested
    /\ cond' = [cond EXCEPT !.tested = TRUE,
                            !.result = test(cond.target, cond.comparison,
                                            cond.is_float, cond.value)]
    /\ UNCHANGED cond_frame

CNext == CTest

CSpec == CInit /\ [][CNext]_vars

\* ------------------------------------------------------------------ claims
\* the edges of the phase graph begin -> ready -> housekeeping -> decision ->
\* pre-action -> action -> post-action -> resolve-match -> {housekeeping |
\* ran-away | draw-match | has-winner} -> end-combat
GraphEdges ==
    {<<"begin", "ready">>,
     <<"ready", "housekeeping phase">>,
     <<"housekeeping phase", "decision phase">>,
     <<"decision phase", "pre action phase">>,
     <<"pre action phase", "action phase">>,
     <<"action phase", "post action phase">>,
     <<"post action phase", "resolve match">>,
     <<"resolve match", "housekeeping phase">>,
     <<"resolve match", "ran away">>,
     <<"resolve match", "draw match">>,
     <<"resolve match", "has winner">>,
     <<"ran away", "end combat">>,
     <<"draw match", "end combat">>,
     <<"has winner", "end combat">>}

remaining_count ==
    Cardinality({p \in Range(players) :
                    \E m \in Range(monsters(p)) : current_hp[m] > 0})

\* C2: when update leaves resolve match, the phase entered is decided by the
\* number of non-defeated parties and the retreat flag alone: none -> draw
\* match; one -> ran away with the flag set, has winner without; more ->
\* housekeeping.
C2_ResolveByCount ==
    [][(phase = "resolve match" /\ phase' # phase) =>
          phase' = IF remaining_count = 0 THEN "draw match"
                   ELSE IF remaining_count = 1
                        THEN (IF _run THEN "ran away" ELSE "has winner")
                        ELSE "housekeeping phase"]_vars

\* C2 witness: resolve match was left for ran away, with one party
\* remaining and the retreat flag set
C2_Witness ==
    /\ phase = "ran away" /\ edge = <<"resolve match", "ran away">>
    /\ remaining_count = 1 /\ _run

\* C3 as stated: the action queue is empty when update enters the decision
\* phase, and empty when it leaves the post action phase for resolve match.
C3_QueueEmptyAtBoundaries ==
    [][/\ (phase # "decision phase" /\ phase' = "decision phase")
            => _action_queue = <<>>
       /\ (phase = "post action phase" /\ phase' = "resolve match")
            => (_action_queue = <<>> /\ _action_queue' = <<>>)]_vars

\* C5: no action is performed whose user or target has no health left and
\* does not carry the faint condition.
C5_NoActionOnUnfainted == ~last_exec.stale

\* C5 witness: an action has just been performed after a monster fainted
C5_Witness ==
    /\ tasks = follow_ups
    /\ last_exec.technique = "tackle"
    /\ \E m \in Monsters : has_status(m, "faint")

\* the queue entries one invocation of the decision maker for m has left
ai_pending(m) ==
    {i \in DOMAIN _action_queue :
        \/ _action_queue[i].user = m
        \/ (_action_queue[i].user = Ai /\ _action_queue[i].target = m)}

\* C6 as stated: the decision maker enqueues exactly one action for each AI
\* monster in play, the item action taking the place of the technique.
C6_OneActionPerDecision ==
    (phase = "decision phase" /\ players = <<Human, Ai>>) =>
        \A m \in Range(monsters_in_play[Ai]) : Cardinality(ai_pending(m)) = 1

\* C4 as stated: after remove_monster_actions_from_queue(monster) the queue
\* holds no action whose user or target is that monster.
C4_NoReferenceAfterRemove ==
    q_op.name = "remove" =>
        \A i \in DOMAIN _action_queue :
            /\ _action_queue[i].user # q_op.original
            /\ _action_queue[i].target # q_op.original

\* position of the sort category of an executed or queued action
category(action) == index(sort(action.technique))

\* C7: the actions executed so far ran in category order, and each of them
\* has a category no later than that of every action still queued.
C7_CategoryOrder ==
    /\ \A i, j \in DOMAIN trace :
          i < j => category(trace[i].action) <= category(trace[j].action)
    /\ \A i \in DOMAIN trace : \A k \in DOMAIN _action_queue :
          category(trace[i].action) <= category(_action_queue[k])

\* C7 witness: a meta action was executed before a damage action that was
\* enqueued ahead of it
C7_Witness ==
    \E i, j \in DOMAIN trace :
        /\ i < j /\ trace[i].id > trace[j].id
        /\ sort(trace[i].action.technique) = "meta"
        /\ sort(trace[j].action.technique) = "damage"

\* C8 as stated: of two executed actions of one category other than meta and
\* potion, the one executed first does not have the lower speed value.
C8_FasterFirst ==
    \A i, j \in DOMAIN trace :
        (/\ i < j
         /\ category(trace[i].action) = category(trace[j].action)
         /\ sort(trace[i].action.technique) \notin {"meta", "potion"})
        => trace[i].key[2] >= trace[j].key[2]

\* C9: in the queue sort_action_queue leaves, entries of equal key stand in
\* the order they were enqueued, and every entry is the one enqueued under
\* its number.
C9_StableSort ==
    q_op.name = "sort" =>
        /\ \A i, j \in DOMAIN _action_queue :
              (i < j /\ q_keys[i] = q_keys[j]) => q_ids[i] < q_ids[j]
        /\ \A i \in DOMAIN _action_queue :
              _action_queue[i] = q_op.before[q_ids[i]]

\* C9 witness: the sort moved an entry and left two different actions of
\* equal key
C9_Witness ==
    /\ q_op.name = "sort"
    /\ \E i \in DOMAIN q_ids : q_ids[i] # i
    /\ \E i, j \in DOMAIN _action_queue :
          /\ i < j /\ q_keys[i] = q_keys[j]
          /\ _action_queue[i] # _action_queue[j]

\* C10: after rewrite_action_queue_target(original, new) every action is the
\* one it was with original replaced by new as target, so none targets
\* original; the actions executed afterwards are not applied to original.
C10_RewriteTarget ==
    /\ q_op.name = "rewrite" =>
          /\ Len(_action_queue) = Len(q_op.before)
          /\ \A i \in DOMAIN _action_queue :
                /\ _action_queue[i].user = q_op.before[i].user
                /\ _action_queue[i].technique = q_op.before[i].technique
                /\ _action_queue[i].target =
                      IF q_op.before[i].target = q_op.original
                      THEN q_op.new ELSE q_op.before[i].target
                /\ _action_queue[i].target # q_op.original
    /\ (q_op.name = "pop" /\ q_op.new # "none") =>
          /\ last_exec.target # q_op.original
          /\ current_hp[q_op.original] = q_op.hp_before
          /\ \A i \in DOMAIN _action_queue :
                _action_queue[i].target # q_op.original

\* C10 witness: an action of the withdrawn monster aimed at itself was
\* rewritten and has been executed on the replacement
C10_Witness ==
    /\ q_op.name = "pop" /\ q_op.new # "none"
    /\ last_exec.user = q_op.original
    /\ last_exec.target = q_op.new
    /\ current_hp[q_op.new] < hp(q_op.new)

\* C11 as stated: in every reachable state a call of determine_phase, for
\* whatever phase, leaves the battle state as it is; the one field the
\* function assigns to is each party's max_position.
C11_DeterminePhasePure ==
    \A ph \in Phases : determine_phase_max_position(ph) = max_position

\* C12 as stated: whenever self.phase holds a phase, transition_phase has been
\* invoked for that phase, exactly once since the phase was entered.
C12_TransitionOncePerEntry ==
    phase # "None" => (entered.phase = phase /\ entered.calls = 1)

\* the critical band of the specification: health above zero and at most 15%
\* of the maximum health
critical_band(m) == current_hp[m] > 0 /\ 100 * current_hp[m] <= 15 * hp(m)

\* an item action of the AI party on its monster m is queued
item_queued(m) ==
    \E i \in DOMAIN _action_queue :
        /\ _action_queue[i].user = Ai
        /\ IsItem(_action_queue[i].technique)
        /\ _action_queue[i].target = m

\* C13 as stated: in the decision phase an item action on an AI monster in
\* play is queued if and only if the battle is a trainer battle, the monster
\* has the highest level of its party, the party holds a potion and the
\* monster's health is above zero and at most 15% of its maximum.
C13_PotionIffCriticalBand ==
    (phase = "decision phase" /\ players = <<Human, Ai>>) =>
        \A m \in Range(monsters_in_play[Ai]) :
            item_queued(m) <=> (/\ is_trainer_battle
                                /\ check_strongest(m)
                                /\ potions > 0
                                /\ critical_band(m))

\* the legal technique actions: a move among the last max_moves moves that
\* is recharged, an opposing monster in play, and the move validating on it
legal_pairs ==
    {pair \in Range(harness_moves) \X Monsters :
        /\ \E i \in DOMAIN harness_moves :
              i > Len(harness_moves) - MaxMoves /\ harness_moves[i] = pair[1]
        /\ ai.next_use[pair[1]] <= 0
        /\ pair[2] \in Range(monsters_in_play[Human])
        /\ pair \in ai.valid}

\* C14: a pair track_next_use returns that is not the skip fallback is a
\* legal technique action, and every legal technique action is among the
\* pairs it can return.
C14_OnlyLegalChoices ==
    /\ (ai.result # NoResult /\ ai.result # IndexError /\ ai.result[1] # "skip")
          => ai.result \in legal_pairs
    /\ legal_pairs \subseteq track_next_use(harness_moves, MaxMoves, ai.next_use,
                                            opponents, ai.valid)

\* C14 witness: a move was chosen while another one was on recharge and a
\* third, older than the last max_moves moves, validated on the same target
C14_Witness ==
    /\ ai.result[1] = "tackle"
    /\ ai.next_use["ram"] > 0 /\ <<"ram", ai.result[2]>> \in ai.valid
    /\ ai.next_use["bite"] <= 0 /\ <<"bite", ai.result[2]>> \in ai.valid
    /\ Len(monsters_in_play[Human]) = 2

\* update is about to enter the decision phase and to invoke the decision
\* maker for the AI monsters in play
ai_invoked ==
    /\ phase = "housekeeping phase" /\ CanUpdate
    /\ next_housekeeping = "decision phase"
    /\ _decision_queue = <<>>
    /\ ai_players # {}

\* what track_next_use can return for m when no move is a candidate: every
\* move on recharge, or no move validating on any opponent
fallback_results(m) ==
    UNION {track_next_use(moves(m), MaxMoves, next_use, opponents, valid) :
              next_use \in {[x \in Range(moves(m)) |-> 1]},
              valid \in SUBSET (Range(moves(m)) \X Range(opponents))}
    \cup track_next_use(moves(m), MaxMoves, [x \in Range(moves(m)) |-> 0],
                        opponents, {})

\* C15: whenever the decision maker is invoked, track_next_use with no
\* candidate returns skip aimed at an opposing monster in play and raises no
\* error; the skip actions queued for AI monsters aim at opposing monsters in
\* play.
C15_SkipFallback ==
    /\ ai_invoked =>
          \A m \in Range(monsters_in_play[Ai]) : \A r \in fallback_results(m) :
              /\ r # IndexError
              /\ r[1] = "skip"
              /\ r[2] \in Range(monsters_in_play[Human])
    /\ (phase = "decision phase" /\ players = <<Human, Ai>>) =>
          \A i \in DOMAIN _action_queue :
              (_action_queue[i].technique = "skip"
               /\ _action_queue[i].user \in Range(monsters(Ai)))
              => _action_queue[i].target \in Range(monsters_in_play[Human])

\* C15 witness: the decision phase was entered with two opposing monsters in
\* play, and the skip fallback of an AI monster aims at the second
C15_Witness ==
    /\ phase = "decision phase" /\ edge = <<"housekeeping phase", "decision phase">>
    /\ monsters_in_play[Human] = <<"h1", "h2">>
    /\ \E i \in DOMAIN _action_queue :
          _action_queue[i] = EnqueuedAction("a1", "skip", "h2")

\* the technique actions queued with the AI monster m as user
decided(m) == {i \in DOMAIN _action_queue : _action_queue[i].user = m}

\* C16 as stated: in the decision phase every AI monster in play has had
\* its one invocation of the decision maker, whose track_next_use result is
\* queued as the one technique action of that monster.
C16_DecisionPerAiMonster ==
    (phase = "decision phase" /\ players = <<Human, Ai>>) =>
        \A m \in Range(monsters_in_play[Ai]) : Cardinality(decided(m)) = 1

\* the follow-up health check of the last performed action has run
checked == last_exec # NoAction /\ \A i \in DOMAIN tasks : tasks[i] # "check_party_hp"

\* C17: when the follow-up health check of a technique performed with
\* should_tackle is about to run, the user is in the ledger entry of the
\* target; and when the target fainted in that check, the user is among the
\* monsters given experience for it.
C17_LedgerBeforeFaintCheck ==
    /\ (tasks # <<>> /\ Head(tasks) = "check_party_hp" /\ last_exec.should_tackle)
          => /\ last_exec.target \in DOMAIN _damage_map
             /\ last_exec.user \in _damage_map[last_exec.target]
    /\ (checked /\ last_exec.should_tackle /\ last_exec.target \in faint_log.last)
          => last_exec.user \in DOMAIN faint_log.given[last_exec.target]

\* C17 witness: the target fainted in the check that followed the first hit
\* it took, and its attacker was given experience
C17_Witness ==
    /\ checked /\ last_exec.should_tackle
    /\ last_exec.target \in faint_log.last
    /\ DOMAIN faint_log.given[last_exec.target] = {last_exec.user}
    /\ faint_log.given[last_exec.target][last_exec.user] > 0

\* C18: every contributor of a monster fainted by the last health check was
\* given floor(total_experience / (level * n)) * experience_modifier, n the
\* number of contributors.
C18_EvenExperience ==
    \A f \in faint_log.last : \A w \in DOMAIN faint_log.given[f] :
        faint_log.given[f][w] =
            (total_experience(f)
                \div (level(f) * Cardinality(DOMAIN faint_log.given[f])))
            * experience_modifier(f)

\* C18 witness: a monster fainted with two contributors, one of which did
\* not land the final hit
C18_Witness ==
    \E f \in faint_log.last :
        /\ checked /\ last_exec.target = f
        /\ Cardinality(DOMAIN faint_log.given[f]) = 2
        /\ \A w \in DOMAIN faint_log.given[f] : faint_log.given[f][w] > 0

\* C19: the health check that faints monsters leaves no ledger entry for
\* them and leaves the entries of all other monsters as they were.
C19_LedgerEntryDeleted ==
    [][(tasks # <<>> /\ Head(tasks) = "check_party_hp" /\ tasks' = Tail(tasks)) =>
          /\ \A m \in faint_log'.last : m \notin DOMAIN _damage_map'
          /\ \A x \in Monsters \ faint_log'.last :
                /\ x \in DOMAIN _damage_map' <=> x \in DOMAIN _damage_map
                /\ x \in DOMAIN _damage_map => _damage_map'[x] = _damage_map[x]]_vars

\* C19 witness: a monster with contributors fainted while another monster
\* has a ledger entry
C19_Witness ==
    /\ checked
    /\ \E f \in faint_log.last : DOMAIN faint_log.given[f] # {}
    /\ DOMAIN _damage_map # {}

\* C20: no monster is fainted twice; after a health check every monster in
\* play without health has been fainted; a monster carries the faint
\* condition exactly when it has been fainted.
C20_FaintOnce ==
    /\ \A m \in Monsters : faint_log.count[m] <= 1
    /\ \A m \in Monsters : has_status(m, "faint") <=> faint_log.count[m] = 1
    /\ checked => \A m \in Range(active_monsters) :
                      current_hp[m] <= 0 => faint_log.count[m] = 1

\* C20 witness: a health check ran after a monster had fainted in an earlier
\* one, and fainted another monster
C20_Witness ==
    /\ checked /\ faint_log.last # {}
    /\ \E m \in Monsters \ faint_log.last : faint_log.count[m] = 1

\* C21 as stated: every monster with a ledger entry is below full health and
\* has not been fainted.
C21_LedgerOnlyDamagedUnfainted ==
    \A m \in DOMAIN _damage_map :
        current_hp[m] < hp(m) /\ faint_log.count[m] = 0


\* handle_action_queue has just performed an action
performed == tasks' = tasks \o follow_ups

\* C22 as stated: an action performed on a target that is not in play leaves
\* the health and the ledger entry of that target as they were.
C22_MootActionNoOp ==
    [][(performed /\ last_exec'.target \notin Range(active_monsters)) =>
          /\ current_hp'[last_exec'.target] = current_hp[last_exec'.target]
          /\ _damage_map' = _damage_map]_vars


\* a call of update that ends in update_phase for the action phase or the
\* post action phase, or that leaves one of them
tick ==
    /\ CanUpdate /\ menus' = menus /\ asks' = asks
    /\ \/ phase \in {"pre action phase", "action phase", "post action phase"}
       \/ phase' \in {"action phase", "post action phase"}

\* C23: a tick of the action or post action phase that finds the queue
\* non-empty pops one action, performs it and schedules each follow-up once;
\* a tick that performs nothing found the queue empty, schedules nothing
\* and changes no monster.
C23_OneActionPerTick ==
    [][tick =>
          /\ _action_queue # <<>> =>
                /\ performed
                /\ Len(_action_queue') = Len(_action_queue) - 1 \/ _run'
                /\ \E i \in DOMAIN _action_queue :
                      /\ _action_queue[i].user = last_exec'.user
                      /\ _action_queue[i].technique = last_exec'.technique
                      /\ _action_queue[i].target = last_exec'.target
          /\ performed =>
                tasks' = <<"check_party_hp", "animate_party_status",
                           "animate_xp_message">>
          /\ ~performed =>
                /\ _action_queue' = <<>>
                /\ tasks' = <<>>
                /\ last_exec' = last_exec
                /\ current_hp' = current_hp
                /\ _damage_map' = _damage_map]_vars

\* C23 witness: the condition action of a monster was performed by the tick
\* that entered the post action phase, and its follow-ups are pending
C23_Witness ==
    /\ phase = "post action phase" /\ edge = <<"action phase", "post action phase">>
    /\ tasks = follow_ups
    /\ IsCondition(last_exec.technique)


\* the number of entries of the queue q equal to the action a
count(q, a) == Cardinality({i \in DOMAIN q : q[i] = a})

\* the action a is the one handle_action_queue pops in this step
popped(a) ==
    /\ performed
    /\ a = EnqueuedAction(last_exec'.user, last_exec'.technique, last_exec'.target)

\* the action a references a monster that check_party_hp faints in this step
purged(a) ==
    /\ tasks # <<>> /\ Head(tasks) = "check_party_hp" /\ tasks' = Tail(tasks)
    /\ \E m \in to_faint : a.user = m \/ a.target = m

cleaned ==
    /\ _action_queue' = <<>>
    /\ \/ phase \in {"ran away", "draw match", "has winner"} /\ phase' = "None"
       \/ performed /\ ~_run /\ _run'

C25_HitIffAccuracy ==
    [][(performed /\ last_exec'.technique = "tackle") =>
          /\ last_exec'.hit <=>
                accuracy(last_exec'.technique) >= game_variables.random_tech_hit
          /\ ~last_exec'.hit =>
                /\ last_exec'.damage = 0
                /\ ~last_exec'.should_tackle
                /\ ~last_exec'.success
                /\ current_hp'[last_exec'.target] = current_hp[last_exec'.target]]_vars

\* C25 witness: in one battle a technique has hit under a draw equal to its
\* accuracy and left a ledger entry, and a technique has now missed under a
\* higher draw
C25_Witness ==
    /\ tasks = follow_ups
    /\ last_exec.technique = "tackle" /\ ~last_exec.hit
    /\ game_variables.random_tech_hit > accuracy(last_exec.technique)
    /\ DOMAIN _damage_map # {}


\* C26: the draw held in game_variables changes only in the step that
\* enters the decision phase, which stores a new sample; every hit check
\* performed from the action phase on has read the draw game_variables
\* holds, so the checks of one round read one value.
C26_OneDrawPerRound ==
    [][/\ game_variables'.random_tech_hit # game_variables.random_tech_hit
             => (phase # "decision phase" /\ phase' = "decision phase")
       /\ (phase # "decision phase" /\ phase' = "decision phase")
             => game_variables'.random_tech_hit \in Draws
       /\ (performed /\ last_exec'.technique = "tackle")
             => /\ game_variables'.random_tech_hit = game_variables.random_tech_hit
                /\ last_exec'.hit <=>
                      accuracy(last_exec'.technique)
                          >= game_variables'.random_tech_hit]_vars

\* C26 witness: the second round is played under a draw that lets the
\* techniques miss, after a technique hit in the first round
C26_Witness ==
    /\ _turn = 2 /\ phase = "action phase"
    /\ last_exec.technique = "tackle" /\ ~last_exec.hit
    /\ tasks = follow_ups
    /\ DOMAIN _damage_map # {}


\* the conditions whose counter this step advances
validated == {m \in Monsters : nr_turn'[m] = nr_turn[m] + 1}

\* the queue handle_action_queue found in this step: the queue the step
\* leaves, with the action it popped
queue_found ==
    IF performed
    THEN Append(_action_queue', EnqueuedAction(last_exec'.user,
                                               last_exec'.technique,
                                               last_exec'.target))
    ELSE _action_queue'

\* C27: the step that enters the post action phase advances the counter of
\* a condition by one or leaves it, only for conditions of monsters in play;
\* for each monster in play and each condition it carries the queue holds
\* one action (no user, the condition, the monster) if the counter was
\* advanced and none if not, and nothing else was enqueued.
C27_OneActionPerValidCondition ==
    [][(phase = "action phase" /\ phase' = "post action phase") =>
          /\ \A m \in Monsters : nr_turn'[m] \in {nr_turn[m], nr_turn[m] + 1}
          /\ validated \subseteq {m \in Range(active_monsters) : status[m] # <<>>}
          /\ \A m \in Range(active_monsters) : \A c \in Range(status[m]) :
                count(queue_found, EnqueuedAction(NoUser, c, m))
                    = IF m \in validated THEN 1 ELSE 0
          /\ Len(queue_found)
                = Cardinality({<<m, c>> \in Monsters \X Conditions :
                                  m \in validated /\ c \in Range(status[m])})]_vars

\* C27 witness: of two monsters in play that carry a condition, one
\* validated, its counter stands at one and its action was performed; the
\* other did not validate and has no action and a counter of zero
C27_Witness ==
    /\ phase = "post action phase" /\ edge = <<"action phase", "post action phase">>
    /\ tasks = follow_ups /\ _action_queue = <<>>
    /\ last_exec.user = NoUser /\ last_exec.technique = "poison"
    /\ \E m \in Range(active_monsters) \ {last_exec.target} :
          has_status(m, "poison") /\ nr_turn[m] = 0
    /\ nr_turn[last_exec.target] = 1


\* C28 as stated: update leaves ran away, draw match or has winner for end
\* combat only after a WaitForInputState was pushed on entering the phase
\* and has been dismissed.
C28_GateBeforeEndCombat ==
    [][(phase \in {"ran away", "draw match", "has winner"} /\ phase' # phase)
          => entered.dismissed]_vars


\* the outcome the specification has recorded on entering the phase ph
recorded(ph) ==
    CASE ph = "draw match" -> {"draw"}
      [] ph = "has winner" ->
            IF \A m \in Range(monsters(Human)) : current_hp[m] <= 0
            THEN {"lost"} ELSE {"won"}
      [] ph = "ran away" -> {"ran"}
      [] OTHER -> {}

\* C29 as stated: in ran away, draw match and has winner battle_last_result
\* holds the outcome of the battle: draw in draw match; in has winner, won
\* when the human party is the one remaining and lost when it is defeated;
\* the retreat in ran away.
C29_OutcomeRecorded ==
    phase \in {"ran away", "draw match", "has winner"}
        => game_variables.battle_last_result \in recorded(phase)


\* the step enters draw match or has winner
outcome_entered ==
    phase' # phase /\ phase' \in {"draw match", "has winner"}

all_decided ==
    /\ phase = "decision phase" /\ players = <<Human, Ai>> /\ ~_run
    /\ menus = {} /\ _decision_queue = <<>>
    /\ \A m \in Range(active_monsters) : decided(m) # {}

\* C35 as stated: once every decision is made and update can run the state
\* machine, determine_phase answers with the pre action phase, so the next
\* call of update leaves the decision phase.
C35_DecisionPhaseAdvances ==
    (all_decided /\ CanUpdate) => determine_phase(phase) = "pre action phase"


\* a follow-up task of a performed action has not fired yet
follow_up_pending == \E i \in DOMAIN tasks : tasks[i] \in Range(follow_ups)

\* C36: a step that pops an action for execution or changes the phase finds
\* no follow-up task pending, and among the pending follow-ups the health
\* check fires before the faint animation and the experience message.
C36_FollowUpsBeforeNextAction ==
    [][/\ (performed \/ phase' # phase) => ~follow_up_pending
       /\ \A i, j \in DOMAIN tasks :
             (tasks[i] = "check_party_hp"
              /\ tasks[j] \in {"animate_party_status", "animate_xp_message"})
                 => i < j]_vars

\* C36 witness: an action was popped after the health check of the action
\* before it had fainted a monster, and its own follow-ups are pending
C36_Witness ==
    /\ phase = "action phase" /\ tasks = follow_ups
    /\ faint_log.last # {}
    /\ \A m \in faint_log.last : m \notin Range(active_monsters)


\* the entries of q that reference neither as user nor as target the monster m
others(q, m) == SelectSeq(q, LAMBDA a : a.user # m /\ a.target # m)

\* C37: remove_monster_actions_from_queue(m) keeps every queued action whose
\* user and target both differ from m, in the order they had.
C37_RemoveKeepsOthers ==
    q_op.name = "remove" =>
        others(_action_queue, q_op.original) = others(q_op.before, q_op.original)

\* C37 witness: a removal took an action out of a queue in which two actions
\* that do not reference the monster are still queued
C37_Witness ==
    /\ q_op.name = "remove"
    /\ Len(_action_queue) < Len(q_op.before)
    /\ Len(others(_action_queue, q_op.original)) = 2


\* C38: every entry of the damage ledger is a non-empty set of contributors,
\* so the divisor level * len(contributors) of the experience computation in
\* faint_monster is never zero for a monster that has an entry.
C38_LedgerEntriesNonEmpty ==
    \A m \in DOMAIN _damage_map :
        /\ _damage_map[m] # {}
        /\ level(m) * Cardinality(_damage_map[m]) # 0

\* C38 witness: the health check is about to faint a monster that has a
\* ledger entry
C38_Witness ==
    /\ tasks # <<>> /\ Head(tasks) = "check_party_hp"
    /\ to_faint \cap DOMAIN _damage_map # {}


\* every non-defeated party has all of its battle positions filled
positions_filled ==
    \A p \in Range(active_players) : Len(monsters_in_play[p]) = max_position[p]

\* C39: the step that enters the decision phase ends with every non-defeated
\* party having as many monsters in play as it has positions; and whenever
\* the housekeeping phase has no replacement dialog open and update can run,
\* determine_phase answers with the decision phase.
C39_PositionsFilledAtDecision ==
    [][/\ (phase # "decision phase" /\ phase' = "decision phase")
             => positions_filled'
       /\ (phase' = "housekeeping phase" /\ asks' = 0 /\ CanUpdate')
             => next_housekeeping' = "decision phase"]_vars

\* C39 witness: the decision phase of the second round was entered after the
\* human player supplied the replacement of a fainted monster
C39_Witness ==
    /\ phase = "decision phase" /\ _turn = 2
    /\ edge = <<"housekeeping phase", "decision phase">>
    /\ faint_log.count["h1"] = 1
    /\ monsters_in_play[Human] = <<"h2">>
    /\ positions_filled


\* the predicate of the i-th evolution path of the monster m: the level
\* threshold is met and the condition of the path, if it has one, holds
eligible(m, i) ==
    /\ i \in DOMAIN evolutions(m)
    /\ evolutions(m)[i].at_level <= level(m)
    /\ evolutions(m)[i].path = "standard" \/ <<m, i>> \in evolution.holds

margin ==
    IF cond.is_float
    THEN 100 * current_hp[cond.target] - cond.value * hp(cond.target)
    ELSE 100 * current_hp[cond.target] - 100 * cond.value

\* C34: test returns true exactly when the current health of the target
\* stands in the given relation (>= when none is given) to the value itself
\* for an integer value, and to value * hp for a float value.
C34_CurrentHpTest ==
    cond.tested =>
        (cond.result <=>
            \/ cond.comparison \in {"None", ">="} /\ margin >= 0
            \/ cond.comparison = ">" /\ margin > 0
            \/ cond.comparison = "<" /\ margin < 0
            \/ cond.comparison = "<=" /\ margin <= 0
            \/ cond.comparison \in {"==", "="} /\ margin = 0)

\* C34 witness: with no comparison given, a target at exactly half of its
\* health passed the test against the float 0.5
C34_Witness ==
    /\ cond.tested /\ cond.result
    /\ cond.comparison = "None" /\ cond.is_float /\ cond.value = 50
    /\ 2 * current_hp[cond.target] = hp(cond.target)


\* the step enters the housekeeping phase
housekeeping_entered == phase' # phase /\ phase' = "housekeeping phase"

\* the entries the step has appended to the log, when it has only appended
appended ==
    IF /\ Len(_log_action') >= Len(_log_action)
       /\ SubSeq(_log_action', 1, Len(_log_action)) = _log_action
    THEN SubSeq(_log_action', Len(_log_action) + 1, Len(_log_action'))
    ELSE <<>>

\* C32: the round counter grows by one on every entry into housekeeping and
\* changes in no other step; a step that leaves more copies of an action in
\* the queue appends to the log the pair (current round, action) once for
\* each copy the queue has gained;
\* the log changes only by such appends or by being emptied, every entry it
\* gains carries the current round, and its rounds never decrease.
C32_RoundCounterAndLog ==
    [][/\ housekeeping_entered => _turn' = _turn + 1
       /\ _turn' # _turn => housekeeping_entered
       /\ \A i \in DOMAIN _action_queue' :
             count(_action_queue', _action_queue'[i])
                > count(_action_queue, _action_queue'[i]) =>
             count(appended, <<_turn, _action_queue'[i]>>)
                >= count(_action_queue', _action_queue'[i])
                      - count(_action_queue, _action_queue'[i])
       /\ _log_action' # _log_action =>
             \/ _log_action' = <<>>
             \/ /\ appended # <<>>
                /\ \A i \in DOMAIN appended : appended[i][1] = _turn
       /\ \A i, j \in DOMAIN _log_action' :
             i < j => _log_action'[i][1] <= _log_action'[j][1]]_vars

\* C32 witness: in the second round the log holds actions of both rounds,
\* among them a condition action enqueued in the post action phase
C32_Witness ==
    /\ _turn = 2 /\ phase = "decision phase"
    /\ \E i, j \in DOMAIN _log_action :
          /\ _log_action[i][1] = 1 /\ _log_action[i][2].user = NoUser
          /\ _log_action[j][1] = 2


\* transition_phase("end combat") has run
ended == entered.phase = "end combat"

\* C40: end combat is terminal: once it has been entered the action queue
\* and the action log are empty, end_combat's cleanup and the evolution
\* evaluation have run exactly once, no task or dialog is pending and
\* determine_phase returns no phase; no later step changes the phase, calls
\* transition_phase, executes an action or evaluates evolutions.
C40_EndCombatTerminal ==
    /\ [](ended =>
            /\ _action_queue = <<>> /\ _log_action = <<>>
            /\ evolution.calls = 1
            /\ tasks = <<>> /\ menus = {} /\ ~gate
            /\ determine_phase(phase) = "None"
            /\ phase \notin {"action phase", "post action phase"})
    /\ [][ended => /\ ended'
                   /\ UNCHANGED <<phase, edge, entered, last_exec, evolution,
                                  _action_queue, _log_action, _turn>>]_vars
    /\ [][evolution'.calls # evolution.calls =>
             ~ended /\ ended' /\ evolution'.calls = 1]_vars

\* C40 witness: a battle of two rounds has ended after an action was performed
C40_Witness ==
    /\ ended /\ _turn = 2 /\ evolution.calls = 1
    /\ last_exec.user \in Monsters


\* the move of h1 that always hits and takes all the health of its target
lethal == EnqueuedAction("h1", "slam", "a1")

\* h1 has chosen the move in the first round
lethal_chosen ==
    /\ _turn = 1 /\ phase = "decision phase"
    /\ \E i \in DOMAIN _log_action : _log_action[i] = <<1, lethal>>

\* the battle has a winner after one round and the opposing party is defeated
won_in_one_round ==
    /\ entered.phase = "has winner" /\ _turn = 1
    /\ defeated(Ai) /\ ~defeated(Human)

\* C31 as stated: once the monster of one party has chosen a move of
\* accuracy 100% that takes all the health of its target, the opposing party
\* is defeated after this round, and the phase reaches "has winner" and then
\* "end combat".
C31_LethalMoveWinsInOneRound ==
    /\ lethal_chosen ~> won_in_one_round
    /\ won_in_one_round ~> ended


\* the action phase has performed the move and no action since
lethal_performed ==
    /\ phase = "action phase"
    /\ last_exec.user = lethal.user /\ last_exec.technique = lethal.technique
    /\ last_exec.target = lethal.target

\* the battle has ended with the opposing party defeated: with a winner
\* when the monster of the human party still stands, in a draw when it does
\* not
battle_decided ==
    /\ defeated(Ai)
    /\ entered.phase = IF defeated(Human) THEN "draw match" ELSE "has winner"

\* C31: when a move of accuracy 100% whose damage is never below the health
\* of its target is performed, it hits and the opposing party is defeated;
\* no further round begins, the battle ends in "has winner" when the party
\* of its user still has a monster standing and in "draw match" when it has
\* none, and the phase then reaches "end combat".
C31_PerformedLethalMoveDecides ==
    /\ [](lethal_performed => last_exec.hit /\ defeated(Ai))
    /\ [][defeated(Ai) => _turn' = _turn /\ defeated(Ai)']_vars
    /\ lethal_performed ~> battle_decided
    /\ battle_decided ~> ended

\* C31 witness: the move was chosen and performed in the first round and
\* the battle has a winner
C31_Witness ==
    /\ won_in_one_round
    /\ last_exec.user = lethal.user /\ last_exec.technique = lethal.technique
    /\ last_exec.hit
    /\ \E i \in DOMAIN _log_action : _log_action[i] = <<1, lethal>>

====
